---- MODULE Spec2Model ----
(***************************************************************************)
(* A model of src/src/program.ts: Program.initialize (the statement pass   *)
(* and the drains of the queued imports, exports, extends and global       *)
(* aliases) and the resolver (ClassPrototype.resolve,                      *)
(* FunctionPrototype.resolve, Program.resolveType).                        *)
(*                                                                         *)
(* Names are sequences of segments: the internal name "a/index/x" is       *)
(* <<"a", "index", "x">>, so that string concatenation with PATH_DELIMITER *)
(* is \o and endsWith("/index") is a test of the last segment.  Elements   *)
(* live in a heap (program.elements) and are referred to by their index;   *)
(* Null (0) is the null reference.                                         *)
(***************************************************************************)
EXTENDS Integers, Sequences, FiniteSets, TLC

VARIABLES program, init, resolver, flow

vars == <<program, init, resolver, flow>>

Null == 0
NoName == ""
NoPath == <<>>

(***************************************************************************)
(* Bounds of the model.                                                    *)
(***************************************************************************)
MaxStatements == 3
MaxSources == 2

Names == {"x", "y"}

LIBRARY_SUBST == "~lib"
INSTANCE_DELIMITER == "#"
STATIC_DELIMITER == "."

(* The sources a program is made of: normalized internal path and isEntry. *)
SourcePool ==
  << [internalPath |-> <<"a">>, isEntry |-> TRUE],
     [internalPath |-> <<"b", "index">>, isEntry |-> FALSE],
     [internalPath |-> <<LIBRARY_SUBST, "c">>, isEntry |-> FALSE] >>

ImportPaths == { <<"a">>, <<"b">>, <<"b", "index">> }

ExportPaths == { <<"a">>, <<"b", "index">> }

isLibrary(source) == source.internalPath[1] = LIBRARY_SUBST

(***************************************************************************)
(* Map<string,Element> helpers.                                            *)
(***************************************************************************)
Has(m, k) == k \in DOMAIN m
Get(m, k) == IF k \in DOMAIN m THEN m[k] ELSE Null
Set(m, k, v) == [x \in (DOMAIN m) \cup {k} |-> IF x = k THEN v ELSE m[x]]
EmptyMap == [x \in {} |-> Null]

error(P, code, arg) == [P EXCEPT !.diagnostics = @ \cup {<<code, arg>>}]

(* declaration.fileLevelInternalName: the path of the source, the names of
   the enclosing declarations, each followed by its delimiter (d.scope,
   empty at the top of a source), and the simple name *)
fileLevelInternalName(d) == d.source.internalPath \o d.scope \o <<d.name>>

(* new Element(...) that forgets the file part of the internal name's path *)
NewElementMisnamed(P, kind, d, decoratorFlags) ==
  [P EXCEPT !.elements = Append(@,
     [kind |-> kind,
      simpleName |-> d.name,
      internalName |-> <<d.name, d.name>>,
      flags |-> d.flags,
      decoratorFlags |-> decoratorFlags,
      basePrototype |-> Null,
      members |-> EmptyMap,
      instanceMembers |-> <<>>,
      constructorPrototype |-> Null,
      overloadPrototypes |-> <<>>,
      classPrototype |-> Null,
      operatorKind |-> "INVALID",
      namespace |-> Null,
      declaration |-> d])]

(* new Element(...): appended to the heap; its reference is the new length *)
NewElement(P, kind, d, decoratorFlags) ==
  [P EXCEPT !.elements = Append(@,
     [kind |-> kind,
      simpleName |-> d.name,
      internalName |-> fileLevelInternalName(d),
      flags |-> d.flags,
      decoratorFlags |-> decoratorFlags,
      basePrototype |-> Null,
      members |-> EmptyMap,
      instanceMembers |-> <<>>,
      constructorPrototype |-> Null,
      overloadPrototypes |-> <<>>,
      classPrototype |-> Null,
      operatorKind |-> "INVALID",
      namespace |-> Null,
      declaration |-> d])]

LastElement(P) == Len(P.elements)

SetFlag(P, id, flag) == [P EXCEPT !.elements[id].flags = @ \cup {flag}]

(***************************************************************************)
(* Program.filterDecorators.  A decorator node is given by its kind and    *)
(* its arguments; decoratorKindToFlag maps the four kinds that have a flag *)
(* to it.                                                                  *)
(***************************************************************************)
Decorator(kind) == [decoratorKind |-> kind, arguments |-> <<>>]

decoratorKindToFlag(kind) ==
  IF kind \in {"GLOBAL", "UNMANAGED", "SEALED", "INLINE"} THEN kind ELSE "NONE"

RECURSIVE filterDecoratorsFrom(_, _, _, _, _)
filterDecoratorsFrom(P, decorators, acceptedFlags, i, presentFlags) ==
  IF i > Len(decorators) THEN [P |-> P, flags |-> presentFlags]
  ELSE LET flag == decoratorKindToFlag(decorators[i].decoratorKind) IN
       IF flag = "NONE"
       THEN filterDecoratorsFrom(P, decorators, acceptedFlags, i + 1, presentFlags)
       ELSE IF flag \notin acceptedFlags
       THEN filterDecoratorsFrom(
              error(P, "Decorator_0_is_not_valid_here", <<decorators[i].decoratorKind>>),
              decorators, acceptedFlags, i + 1, presentFlags)
       ELSE IF flag \in presentFlags
       THEN filterDecoratorsFrom(
              error(P, "Duplicate_decorator", <<decorators[i].decoratorKind>>),
              decorators, acceptedFlags, i + 1, presentFlags)
       ELSE filterDecoratorsFrom(P, decorators, acceptedFlags, i + 1, presentFlags \cup {flag})

filterDecorators(P, decorators, acceptedFlags) ==
  filterDecoratorsFrom(P, decorators, acceptedFlags, 1, {})

(***************************************************************************)
(* Program.checkGlobalOptions: publishes the element under its simple name *)
(* when it is @global or exported at the top of a library source.          *)
(***************************************************************************)
checkGlobalOptions(P, element, declaration) ==
  LET e == P.elements[element]
      simpleName == <<declaration.name>>
  IN IF "GLOBAL" \in e.decoratorFlags
        \/ (isLibrary(declaration.source) /\ "EXPORT" \in e.flags /\ declaration.topLevel)
     THEN IF Has(P.elementsLookup, simpleName)
          THEN error(P, "Duplicate_identifier_0", e.internalName)
          ELSE LET P1 == [P EXCEPT !.elementsLookup = Set(@, simpleName, element)]
               IN IF "BUILTIN" \in e.flags
                  THEN [P1 EXCEPT !.elements[element].internalName = simpleName]
                  ELSE P1
     ELSE P

(***************************************************************************)
(* The members of a class.  ClassPrototype.instanceMembers and             *)
(* ClassPrototype.overloadPrototypes are Maps that are iterated later:     *)
(* they are kept as the sequence of their entries in insertion order.      *)
(***************************************************************************)
operatorKindFromString(str) ==
  CASE str = "[]" -> "INDEXED_GET"
    [] str = "[]=" -> "INDEXED_SET"
    [] str = "+" -> "ADD"
    [] str = "-" -> "SUB"
    [] str = "*" -> "MUL"
    [] str = "/" -> "DIV"
    [] str = "%" -> "REM"
    [] str = "**" -> "POW"
    [] str = "&" -> "AND"
    [] str = "|" -> "OR"
    [] str = "^" -> "XOR"
    [] str = "==" -> "EQ"
    [] str = "!=" -> "NE"
    [] str = ">" -> "GT"
    [] str = ">=" -> "GE"
    [] str = "<" -> "LT"
    [] str = "<=" -> "LE"
    [] OTHER -> "INVALID"

(* instanceMembers.has(simpleName) *)
InstanceMembersHas(P, classPrototype, simpleName) ==
  \E n \in 1..Len(P.elements[classPrototype].instanceMembers) :
    P.elements[P.elements[classPrototype].instanceMembers[n]].simpleName = simpleName

(* overloads.has(kind) and overloads.get(kind) *)
OverloadsHas(overloads, kind) == \E n \in 1..Len(overloads) : overloads[n].kind = kind

OverloadsGet(overloads, kind) ==
  IF OverloadsHas(overloads, kind)
  THEN overloads[CHOOSE n \in 1..Len(overloads) : overloads[n].kind = kind].prototype
  ELSE Null

(* overloads.set(kind, prototype) *)
OverloadsSet(overloads, kind, prototype) ==
  IF OverloadsHas(overloads, kind)
  THEN [n \in 1..Len(overloads) |->
          IF overloads[n].kind = kind THEN [kind |-> kind, prototype |-> prototype]
          ELSE overloads[n]]
  ELSE Append(overloads, [kind |-> kind, prototype |-> prototype])

(* the body of checkOperatorOverloads' loop without the test of
   overloads.has(kind): the last method annotated with a kind wins *)
checkOperatorOverloadLastWins(P, decorator, prototype, classPrototype) ==
  IF decorator.decoratorKind # "OPERATOR" THEN P
  ELSE IF Len(decorator.arguments) # 1
  THEN error(P, "Expected_0_arguments_but_got_1", <<"1">>)
  ELSE LET firstArg == decorator.arguments[1] IN
       IF firstArg.kind = "LITERAL" /\ firstArg.literalKind = "STRING"
       THEN LET kind == operatorKindFromString(firstArg.value) IN
            IF kind = "INVALID"
            THEN error(P, "Operation_not_supported", <<firstArg.value>>)
            ELSE [P EXCEPT !.elements[prototype].operatorKind = kind,
                           !.elements[classPrototype].overloadPrototypes =
                              OverloadsSet(@, kind, prototype)]
       ELSE error(P, "String_literal_expected", <<firstArg.value>>)

(***************************************************************************)
(* Program.checkOperatorOverloads: the body of its loop over the           *)
(* decorators of a method, and the loop.                                   *)
(***************************************************************************)
checkOperatorOverload(P, decorator, prototype, classPrototype) ==
  IF decorator.decoratorKind # "OPERATOR" THEN P
  ELSE IF Len(decorator.arguments) # 1
  THEN error(P, "Expected_0_arguments_but_got_1", <<"1">>)
  ELSE LET firstArg == decorator.arguments[1] IN
       IF firstArg.kind = "LITERAL" /\ firstArg.literalKind = "STRING"
       THEN LET kind == operatorKindFromString(firstArg.value) IN
            IF kind = "INVALID"
            THEN error(P, "Operation_not_supported", <<firstArg.value>>)
            ELSE IF OverloadsHas(P.elements[classPrototype].overloadPrototypes, kind)
            THEN error(P, "Duplicate_function_implementation", <<firstArg.value>>)
            ELSE [P EXCEPT !.elements[prototype].operatorKind = kind,
                           !.elements[classPrototype].overloadPrototypes =
                              OverloadsSet(@, kind, prototype)]
       ELSE error(P, "String_literal_expected", <<firstArg.value>>)

RECURSIVE checkOperatorOverloadsFrom(_, _, _, _, _)
checkOperatorOverloadsFrom(P, decorators, prototype, classPrototype, i) ==
  IF i > Len(decorators) THEN P
  ELSE checkOperatorOverloadsFrom(
         checkOperatorOverload(P, decorators[i], prototype, classPrototype),
         decorators, prototype, classPrototype, i + 1)

checkOperatorOverloads(P, decorators, prototype, classPrototype) ==
  checkOperatorOverloadsFrom(P, decorators, prototype, classPrototype, 1)

(***************************************************************************)
(* Program.initializeField: a static field becomes a Global, an instance   *)
(* field a FieldPrototype among the instance members.                      *)
(***************************************************************************)
initializeField(P, declaration, classPrototype) ==
  LET name == declaration.name
      internalName == fileLevelInternalName(declaration)
  IN
  IF "STATIC" \in declaration.flags
  THEN IF Has(P.elementsLookup, internalName)
       THEN error(P, "Duplicate_identifier_0", internalName)
       ELSE IF Has(P.elements[classPrototype].members, name)
       THEN error(P, "Duplicate_identifier_0", internalName)
       ELSE LET P1 == NewElement(P, "GLOBAL", declaration, {})
                staticField == LastElement(P1)
            IN [P1 EXCEPT !.elements[classPrototype].members = Set(@, name, staticField),
                          !.elementsLookup = Set(@, internalName, staticField)]
  ELSE IF InstanceMembersHas(P, classPrototype, name)
       THEN error(P, "Duplicate_identifier_0", internalName)
       ELSE LET P1 == NewElement(P, "FIELD_PROTOTYPE", declaration, {})
                instanceField == LastElement(P1)
            IN [P1 EXCEPT !.elements[instanceField].classPrototype = classPrototype,
                          !.elements[classPrototype].instanceMembers = Append(@, instanceField)]

(***************************************************************************)
(* Program.initializeMethod.  The constructor is the method whose name     *)
(* node is of kind CONSTRUCTOR.                                            *)
(***************************************************************************)
initializeMethod(P, declaration, classPrototype) ==
  LET simpleName == declaration.name
      internalName == fileLevelInternalName(declaration)
      f == filterDecorators(P, declaration.decorators, {"INLINE"})
  IN
  IF "STATIC" \in declaration.flags
  THEN IF Has(f.P.elementsLookup, internalName)
       THEN error(f.P, "Duplicate_identifier_0", internalName)
       ELSE IF Has(f.P.elements[classPrototype].members, simpleName)
       THEN error(f.P, "Duplicate_identifier_0", internalName)
       ELSE LET P1 == NewElement(f.P, "FUNCTION_PROTOTYPE", declaration, f.flags)
                prototype == LastElement(P1)
                P2 == [P1 EXCEPT !.elements[prototype].classPrototype = classPrototype,
                                 !.elements[classPrototype].members =
                                    Set(@, simpleName, prototype),
                                 !.elementsLookup = Set(@, internalName, prototype)]
            IN checkOperatorOverloads(
                 IF "MODULE_EXPORT" \in P2.elements[classPrototype].flags
                 THEN SetFlag(P2, prototype, "MODULE_EXPORT") ELSE P2,
                 declaration.decorators, prototype, classPrototype)
  ELSE IF InstanceMembersHas(f.P, classPrototype, simpleName)
       THEN error(f.P, "Duplicate_identifier_0", internalName)
       ELSE LET P1 == NewElement(f.P, "FUNCTION_PROTOTYPE", declaration, f.flags)
                prototype == LastElement(P1)
                P2 == [P1 EXCEPT !.elements[prototype].classPrototype = classPrototype]
                P3 == IF declaration.nameKind = "CONSTRUCTOR"
                      THEN IF P2.elements[classPrototype].constructorPrototype # Null
                           THEN error(P2, "Multiple_constructor_implementations_are_not_allowed",
                                      internalName)
                           ELSE [SetFlag(P2, prototype, "CONSTRUCTOR") EXCEPT
                                   !.elements[classPrototype].constructorPrototype = prototype]
                      ELSE [P2 EXCEPT !.elements[classPrototype].instanceMembers =
                                         Append(@, prototype)]
            IN checkOperatorOverloads(
                 IF "MODULE_EXPORT" \in P3.elements[classPrototype].flags
                 THEN SetFlag(P3, prototype, "MODULE_EXPORT") ELSE P3,
                 declaration.decorators, prototype, classPrototype)

(* Program.initializeClass: "initialize members".  The methods of this
   universe are no accessors (neither GET nor SET). *)
RECURSIVE initializeMembersFrom(_, _, _, _)
initializeMembersFrom(P, memberDeclarations, prototype, i) ==
  IF i > Len(memberDeclarations) THEN P
  ELSE initializeMembersFrom(
         IF memberDeclarations[i].kind = "FIELDDECLARATION"
         THEN initializeField(P, memberDeclarations[i], prototype)
         ELSE initializeMethod(P, memberDeclarations[i], prototype),
         memberDeclarations, prototype, i + 1)

(***************************************************************************)
(* Program.initializeClass, for a class declared at the top of a source    *)
(* (namespace = null).                                                     *)
(***************************************************************************)
initializeClass(P, declaration) ==
  LET internalName == fileLevelInternalName(declaration) IN
  IF Has(P.elementsLookup, internalName)
  THEN error(P, "Duplicate_identifier_0", internalName)
  ELSE
    LET f == filterDecorators(P, declaration.decorators, {"GLOBAL", "SEALED", "UNMANAGED"})
        P1 == NewElement(f.P, "CLASS_PROTOTYPE", declaration, f.flags)
        prototype == LastElement(P1)
        P2 == [P1 EXCEPT !.elementsLookup = Set(@, internalName, prototype)]
        P3 == IF declaration.implementsTypes > 0
              THEN IF "UNMANAGED" \in f.flags
                   THEN error(P2, "Unmanaged_classes_cannot_implement_interfaces", internalName)
                   ELSE [P2 EXCEPT !.queuedImplements = Append(@, prototype)]
              ELSE P2
        P4 == IF declaration.extendsType # NoName
              THEN [P3 EXCEPT !.queuedExtends = Append(@, prototype)]
              ELSE P3
    IN IF "EXPORT" \in declaration.flags
       THEN IF Has(P4.fileLevelExports, internalName)
            THEN error(P4, "Export_declaration_conflicts_with_exported_declaration_of_0", internalName)
            ELSE LET P5 == [P4 EXCEPT !.fileLevelExports = Set(@, internalName, prototype)]
                 IN IF declaration.source.isEntry
                    THEN IF Has(P5.moduleLevelExports, internalName)
                         THEN error(P5, "Export_declaration_conflicts_with_exported_declaration_of_0",
                                    internalName)
                         ELSE checkGlobalOptions(
                                initializeMembersFrom(
                                  [SetFlag(P5, prototype, "MODULE_EXPORT")
                                     EXCEPT !.moduleLevelExports =
                                              Set(@, internalName, prototype)],
                                  declaration.members, prototype, 1),
                                prototype, declaration)
                    ELSE checkGlobalOptions(
                           initializeMembersFrom(P5, declaration.members, prototype, 1),
                           prototype, declaration)
       ELSE checkGlobalOptions(
              initializeMembersFrom(P4, declaration.members, prototype, 1),
              prototype, declaration)

(***************************************************************************)
(* Program.initializeEnumValue: the values of an enum are its members.     *)
(***************************************************************************)
initializeEnumValue(P, declaration, enm) ==
  IF Has(P.elements[enm].members, declaration.name)
  THEN error(P, "Duplicate_identifier_0", fileLevelInternalName(declaration))
  ELSE LET P1 == NewElement(P, "ENUMVALUE", declaration, {})
           value == LastElement(P1)
           P2 == [P1 EXCEPT !.elements[enm].members = Set(@, declaration.name, value)]
       IN IF "MODULE_EXPORT" \in P.elements[enm].flags
          THEN SetFlag(P2, value, "MODULE_EXPORT")
          ELSE P2

RECURSIVE initializeEnumValuesFrom(_, _, _, _)
initializeEnumValuesFrom(P, values, enm, i) ==
  IF i > Len(values) THEN P
  ELSE initializeEnumValuesFrom(initializeEnumValue(P, values[i], enm), values, enm, i + 1)

(***************************************************************************)
(* Program.initializeEnum (namespace = null).  An Enum takes no decorator  *)
(* flags.                                                                  *)
(***************************************************************************)
initializeEnum(P, declaration) ==
  LET internalName == fileLevelInternalName(declaration) IN
  IF Has(P.elementsLookup, internalName)
  THEN error(P, "Duplicate_identifier_0", internalName)
  ELSE
    LET P1 == NewElement(P, "ENUM", declaration, {})
        element == LastElement(P1)
        P2 == [P1 EXCEPT !.elementsLookup = Set(@, internalName, element)]
    IN IF "EXPORT" \in declaration.flags
       THEN IF Has(P2.fileLevelExports, internalName)
            THEN error(P2, "Export_declaration_conflicts_with_exported_declaration_of_0", internalName)
            ELSE LET P3 == [P2 EXCEPT !.fileLevelExports = Set(@, internalName, element)]
                 IN IF declaration.source.isEntry
                    THEN IF Has(P3.moduleLevelExports, internalName)
                         THEN error(P3, "Export_declaration_conflicts_with_exported_declaration_of_0",
                                    internalName)
                         ELSE checkGlobalOptions(
                                initializeEnumValuesFrom(
                                  [SetFlag(P3, element, "MODULE_EXPORT")
                                     EXCEPT !.moduleLevelExports = Set(@, internalName, element)],
                                  declaration.values, element, 1),
                                element, declaration)
                    ELSE checkGlobalOptions(
                           initializeEnumValuesFrom(P3, declaration.values, element, 1),
                           element, declaration)
       ELSE checkGlobalOptions(
              initializeEnumValuesFrom(P2, declaration.values, element, 1),
              element, declaration)

(***************************************************************************)
(* Program.initializeFunction.  namespace is the element the function is a *)
(* member of, Null at the top of a source.                                 *)
(***************************************************************************)
initializeFunction(P, declaration, namespace) ==
  LET internalName == fileLevelInternalName(declaration) IN
  IF Has(P.elementsLookup, internalName)
  THEN error(P, "Duplicate_identifier_0", internalName)
  ELSE
    LET f == filterDecorators(P, declaration.decorators, {"GLOBAL", "INLINE"})
        P1 == NewElement(f.P, "FUNCTION_PROTOTYPE", declaration, f.flags)
        prototype == LastElement(P1)
        P2 == [P1 EXCEPT !.elements[prototype].namespace = namespace,
                         !.elementsLookup = Set(@, internalName, prototype)]
    IN IF namespace # Null
       THEN IF Has(P2.elements[namespace].members, declaration.name)
            THEN error(P2, "Duplicate_identifier_0", internalName)
            ELSE LET P3 == [P2 EXCEPT !.elements[namespace].members =
                                         Set(@, declaration.name, prototype)]
                 IN checkGlobalOptions(
                      IF "MODULE_EXPORT" \in P3.elements[namespace].flags
                         /\ "EXPORT" \in P3.elements[prototype].flags
                      THEN SetFlag(P3, prototype, "MODULE_EXPORT")
                      ELSE P3,
                      prototype, declaration)
       ELSE IF "EXPORT" \in declaration.flags
       THEN IF Has(P2.fileLevelExports, internalName)
            THEN error(P2, "Export_declaration_conflicts_with_exported_declaration_of_0", internalName)
            ELSE LET P3 == [P2 EXCEPT !.fileLevelExports = Set(@, internalName, prototype)]
                 IN IF declaration.source.isEntry
                    THEN IF Has(P3.moduleLevelExports, internalName)
                         THEN error(P3, "Duplicate_identifier_0", internalName)
                         ELSE checkGlobalOptions(
                                [SetFlag(P3, prototype, "MODULE_EXPORT")
                                   EXCEPT !.moduleLevelExports = Set(@, internalName, prototype)],
                                prototype, declaration)
                    ELSE checkGlobalOptions(P3, prototype, declaration)
       ELSE checkGlobalOptions(P2, prototype, declaration)

(***************************************************************************)
(* Program.initializeInterface (namespace = null).                         *)
(***************************************************************************)
initializeInterface(P, declaration) ==
  LET internalName == fileLevelInternalName(declaration) IN
  IF Has(P.elementsLookup, internalName)
  THEN error(P, "Duplicate_identifier_0", internalName)
  ELSE
    LET f == filterDecorators(P, declaration.decorators, {"GLOBAL"})
        P1 == NewElement(f.P, "INTERFACE_PROTOTYPE", declaration, f.flags)
        prototype == LastElement(P1)
        P2 == [P1 EXCEPT !.elementsLookup = Set(@, internalName, prototype)]
    IN IF "EXPORT" \in declaration.flags
       THEN IF Has(P2.fileLevelExports, internalName)
            THEN error(P2, "Export_declaration_conflicts_with_exported_declaration_of_0", internalName)
            ELSE LET P3 == [P2 EXCEPT !.fileLevelExports = Set(@, internalName, prototype)]
                 IN IF declaration.source.isEntry
                    THEN IF Has(P3.moduleLevelExports, internalName)
                         THEN error(P3, "Duplicate_identifier_0", internalName)
                         ELSE checkGlobalOptions(
                                [SetFlag(P3, prototype, "MODULE_EXPORT")
                                   EXCEPT !.moduleLevelExports = Set(@, internalName, prototype)],
                                prototype, declaration)
                    ELSE checkGlobalOptions(P3, prototype, declaration)
       ELSE checkGlobalOptions(P2, prototype, declaration)

(***************************************************************************)
(* Program.initializeNamespace (parentNamespace = null).  A declaration    *)
(* whose internal name is already bound joins the element bound there, and *)
(* its members are initialized as members of the element joined.  The      *)
(* members of the namespaces of this universe are functions.               *)
(***************************************************************************)
RECURSIVE initializeNamespaceMembersFrom(_, _, _, _)
initializeNamespaceMembersFrom(P, members, namespace, i) ==
  IF i > Len(members) THEN P
  ELSE initializeNamespaceMembersFrom(
         initializeFunction(P, members[i], namespace), members, namespace, i + 1)

initializeNamespace(P, declaration) ==
  LET internalName == fileLevelInternalName(declaration)
      existing == Get(P.elementsLookup, internalName)
      P1 == IF existing = Null
            THEN LET Pn == NewElement(P, "NAMESPACE", declaration, {})
                 IN checkGlobalOptions(
                      [Pn EXCEPT !.elementsLookup = Set(@, internalName, LastElement(Pn))],
                      LastElement(Pn), declaration)
            ELSE P
      namespace == IF existing = Null THEN LastElement(P1) ELSE existing
  IN IF "EXPORT" \in P1.elements[namespace].flags
     THEN LET existingExport == Get(P1.fileLevelExports, internalName)
              P2 == IF existingExport # Null
                    THEN IF "EXPORT" \notin P1.elements[existingExport].flags
                         THEN error(P1,
                                "Individual_declarations_in_merged_declaration_0_must_be_all_exported_or_all_local",
                                P1.elements[namespace].internalName)
                         ELSE P1
                    ELSE [P1 EXCEPT !.fileLevelExports = Set(@, internalName, namespace)]
              joined == IF existingExport # Null THEN existingExport ELSE namespace
          IN IF declaration.source.isEntry
             THEN IF Has(P2.moduleLevelExports, internalName)
                  THEN error(P2, "Duplicate_identifier_0", internalName)
                  ELSE initializeNamespaceMembersFrom(
                         [SetFlag(P2, joined, "MODULE_EXPORT")
                            EXCEPT !.moduleLevelExports = Set(@, internalName, joined)],
                         declaration.members, joined, 1)
             ELSE initializeNamespaceMembersFrom(P2, declaration.members, joined, 1)
     ELSE initializeNamespaceMembersFrom(P1, declaration.members, namespace, 1)

(***************************************************************************)
(* Program.initializeTypeAlias.  typesLookup is kept as the set of its     *)
(* keys; the type node of an alias names a type without type arguments and *)
(* is kept as that name.                                                   *)
(***************************************************************************)
initializeTypeAlias(P, declaration) ==
  IF declaration.name \in P.typesLookup \/ Has(P.typeAliases, declaration.name)
  THEN error(P, "Duplicate_identifier_0", <<declaration.name>>)
  ELSE [P EXCEPT !.typeAliases =
                    Set(@, declaration.name,
                        [typeParameters |-> declaration.typeParameters,
                         type |-> declaration.type])]

(***************************************************************************)
(* Program.initializeVariables (namespace = null): one Global per          *)
(* declaration of the statement.                                           *)
(***************************************************************************)
initializeVariable(P, declaration) ==
  LET internalName == fileLevelInternalName(declaration) IN
  IF Has(P.elementsLookup, internalName)
  THEN error(P, "Duplicate_identifier_0", internalName)
  ELSE
    LET P1 == NewElement(P, "GLOBAL", declaration, {})
        global == LastElement(P1)
        P2 == [P1 EXCEPT !.elementsLookup = Set(@, internalName, global)]
    IN IF "EXPORT" \in declaration.flags
       THEN LET P3 == IF Has(P2.fileLevelExports, internalName)
                      THEN error(P2, "Duplicate_identifier_0", internalName)
                      ELSE [P2 EXCEPT !.fileLevelExports = Set(@, internalName, global)]
            IN IF declaration.source.isEntry
               THEN IF Has(P3.moduleLevelExports, internalName)
                    THEN error(P3, "Duplicate_identifier_0", internalName)
                    ELSE checkGlobalOptions(
                           [SetFlag(P3, global, "MODULE_EXPORT")
                              EXCEPT !.moduleLevelExports = Set(@, internalName, global)],
                           global, declaration)
               ELSE checkGlobalOptions(P3, global, declaration)
       ELSE checkGlobalOptions(P2, global, declaration)

RECURSIVE initializeVariablesFrom(_, _, _)
initializeVariablesFrom(P, declarations, i) ==
  IF i > Len(declarations) THEN P
  ELSE initializeVariablesFrom(initializeVariable(P, declarations[i]), declarations, i + 1)

initializeVariables(P, statement) == initializeVariablesFrom(P, statement.declarations, 1)

(***************************************************************************)
(* queuedExports is a Map<string,QueuedExport>: kept as the sequence of    *)
(* its entries in insertion order, which is the order the drain iterates.  *)
(***************************************************************************)
NoExport == [key |-> NoPath]

QueuedHas(queuedExports, name) == \E n \in 1..Len(queuedExports) : queuedExports[n].key = name

QueuedGet(queuedExports, name) ==
  IF QueuedHas(queuedExports, name)
  THEN queuedExports[CHOOSE n \in 1..Len(queuedExports) : queuedExports[n].key = name]
  ELSE NoExport

(***************************************************************************)
(* Program.setExportAndCheckLibrary.  identifier is member.externalName:   *)
(* its text and the source it stands in.                                   *)
(***************************************************************************)
setExportAndCheckLibrary(P, name, element, identifier) ==
  LET P1 == [P EXCEPT !.fileLevelExports = Set(@, name, element)] IN
  IF isLibrary(identifier.source)
  THEN IF Has(P1.elementsLookup, <<identifier.text>>)
       THEN error(P1, "Export_declaration_conflicts_with_exported_declaration_of_0",
                  <<identifier.text>>)
       ELSE [P1 EXCEPT !.elements[element].internalName = <<identifier.text>>,
                       !.elementsLookup = Set(@, <<identifier.text>>, element)]
  ELSE P1

(***************************************************************************)
(* Program.initializeExport.  The walk over the already known queued       *)
(* exports yields the element found, if any, and the referenced name the   *)
(* walk stopped at (which is what gets queued).                            *)
(***************************************************************************)
RECURSIVE walkQueuedExports(_, _, _)
walkQueuedExports(P, referencedName, seen) ==
  LET queuedExport == QueuedGet(P.queuedExports, referencedName) IN
  IF queuedExport = NoExport
  THEN [element |-> Null, referencedName |-> referencedName]
  ELSE IF queuedExport.isReExport
  THEN LET referencedElement == Get(P.fileLevelExports, queuedExport.referencedName) IN
       IF referencedElement # Null
       THEN [element |-> referencedElement, referencedName |-> referencedName]
       ELSE IF queuedExport.key \in seen
       THEN [element |-> Null, referencedName |-> queuedExport.referencedName]
       ELSE walkQueuedExports(P, queuedExport.referencedName, seen \cup {queuedExport.key})
  ELSE [element |-> Get(P.elementsLookup, queuedExport.referencedName),
        referencedName |-> referencedName]

initializeExport(P, member, internalPath) ==
  LET externalName == member.source.internalPath \o <<member.externalName>>
      identifier == [text |-> member.externalName, source |-> member.source]
  IN
  IF Has(P.fileLevelExports, externalName)
  THEN error(P, "Export_declaration_conflicts_with_exported_declaration_of_0", externalName)
  ELSE IF internalPath = NoPath
  THEN LET referencedName == member.source.internalPath \o <<member.name>>
           referencedElement == Get(P.elementsLookup, referencedName)
       IN IF referencedElement # Null
          THEN setExportAndCheckLibrary(P, externalName, referencedElement, identifier)
          ELSE IF QueuedHas(P.queuedExports, externalName)
          THEN error(P, "Export_declaration_conflicts_with_exported_declaration_of_0", externalName)
          ELSE [P EXCEPT !.queuedExports = Append(@,
                  [key |-> externalName, isReExport |-> FALSE,
                   referencedName |-> referencedName, member |-> member,
                   path |-> internalPath])]
  ELSE LET referencedName == internalPath \o <<member.name>>
           referencedElement == Get(P.elementsLookup, referencedName)
       IN IF referencedElement # Null
          THEN setExportAndCheckLibrary(P, externalName, referencedElement, identifier)
          ELSE LET w == walkQueuedExports(P, referencedName, {}) IN
               IF w.element # Null
               THEN setExportAndCheckLibrary(P, externalName, w.element, identifier)
               ELSE IF QueuedHas(P.queuedExports, externalName)
               THEN error(P, "Export_declaration_conflicts_with_exported_declaration_of_0",
                          externalName)
               ELSE [P EXCEPT !.queuedExports = Append(@,
                       [key |-> externalName, isReExport |-> TRUE,
                        referencedName |-> w.referencedName, member |-> member,
                        path |-> internalPath])]

RECURSIVE initializeExportsFrom(_, _, _)
initializeExportsFrom(P, statement, i) ==
  IF i > Len(statement.members) THEN P
  ELSE initializeExportsFrom(
         initializeExport(P, statement.members[i], statement.internalPath), statement, i + 1)

initializeExports(P, statement) == initializeExportsFrom(P, statement, 1)

(***************************************************************************)
(* Program.initializeImport and Program.initializeImports.                 *)
(***************************************************************************)
endsWithIndex(internalPath) ==
  Len(internalPath) >= 2 /\ internalPath[Len(internalPath)] = "index"

initializeImport(P, declaration, internalPath) ==
  LET internalName == fileLevelInternalName(declaration) IN
  IF Has(P.elementsLookup, internalName)
  THEN error(P, "Duplicate_identifier_0", internalName)
  ELSE
    LET referencedName == internalPath \o <<declaration.externalName>>
        element == Get(P.fileLevelExports, referencedName)
    IN IF element # Null
       THEN [P EXCEPT !.elementsLookup = Set(@, internalName, element)]
       ELSE [P EXCEPT !.queuedImports = Append(@,
               [internalName |-> internalName,
                referencedName |-> referencedName,
                referencedNameAlt |->
                  IF endsWithIndex(internalPath)
                  THEN SubSeq(internalPath, 1, Len(internalPath) - 1)
                         \o <<declaration.externalName>>
                  ELSE internalPath \o <<"index", declaration.externalName>>,
                declaration |-> declaration,
                path |-> internalPath])]

RECURSIVE initializeImportsFrom(_, _, _)
initializeImportsFrom(P, statement, i) ==
  IF i > Len(statement.declarations) THEN P
  ELSE initializeImportsFrom(
         initializeImport(P, statement.declarations[i], statement.internalPath), statement, i + 1)

initializeImports(P, statement) ==
  IF statement.namespaceName = NoName
  THEN initializeImportsFrom(P, statement, 1)
  ELSE LET internalName == statement.source.internalPath \o <<statement.namespaceName>> IN
       IF Has(P.elementsLookup, internalName)
       THEN error(P, "Duplicate_identifier_0", internalName)
       ELSE error(P, "Operation_not_supported", internalName)

(***************************************************************************)
(* Program.tryResolveImport: one iteration of its do-while loop.  The loop *)
(* either returns (done, with the element or Null) or continues with the   *)
(* referenced name of the re-export it looked at.                          *)
(***************************************************************************)
tryResolveImportStep(P, referencedName) ==
  IF Has(P.fileLevelExports, referencedName)
  THEN [done |-> TRUE, element |-> P.fileLevelExports[referencedName],
        referencedName |-> referencedName]
  ELSE LET queuedExport == QueuedGet(P.queuedExports, referencedName) IN
       IF queuedExport = NoExport
       THEN [done |-> TRUE, element |-> Null, referencedName |-> referencedName]
       ELSE IF queuedExport.isReExport
       THEN [done |-> FALSE, element |-> Null, referencedName |-> queuedExport.referencedName]
       ELSE [done |-> TRUE, element |-> Get(P.elementsLookup, queuedExport.referencedName),
             referencedName |-> referencedName]

(* queuedImports.splice(i, 1) *)
splice(q, i) == SubSeq(q, 1, i - 1) \o SubSeq(q, i + 1, Len(q))

(***************************************************************************)
(* Flow.getScopedLocal.  A Function is a record (see InitFlow) that holds  *)
(* the chain of its flows, the parent flow first and the current flow      *)
(* last, and the Map of its locals by name (named); a Local is referred to *)
(* by its position in the function's locals.  scopedLocals is a Map kept   *)
(* as the sequence of its entries.                                         *)
(***************************************************************************)
(* scopedLocals.get(name) *)
ScopedGet(scopedLocals, name) ==
  IF \E n \in 1..Len(scopedLocals) : scopedLocals[n].name = name
  THEN scopedLocals[CHOOSE n \in 1..Len(scopedLocals) : scopedLocals[n].name = name].local
  ELSE Null

RECURSIVE getScopedLocalFrom(_, _, _)
getScopedLocalFrom(F, name, current) ==
  IF current = 0 THEN Get(F.named, name)
  ELSE IF ScopedGet(F.flows[current].scopedLocals, name) # Null
  THEN ScopedGet(F.flows[current].scopedLocals, name)
  ELSE getScopedLocalFrom(F, name, current - 1)

getScopedLocal(F, name) == getScopedLocalFrom(F, name, Len(F.flows))

(***************************************************************************)
(* Program.resolveIdentifier.  contextualFunction is a Function or NoFlow  *)
(* (null), contextualEnum an Enum or Null.  The result is the program with *)
(* the diagnostics emitted and the element found: an element of the        *)
(* program (element) or a Local of the contextual function (local), both   *)
(* Null when null is returned.                                             *)
(***************************************************************************)
NoExpression == [kind |-> "NONE"]

(* contextualFunction = null *)
NoFunction == [thrown |-> NoName]

(* An Element the resolver returns or a Function is a member of, by its
   kind of reference: an element or prototype of the program (ref is its
   index), a Local of the contextual function, a Class instance, a Field of
   a class instance (ref is the class, name the field) or the
   FunctionTarget of a signature; NoElement is null. *)
NoElement == [kind |-> "NULL", ref |-> Null, name |-> NoName]

ElementRef(kind, ref) == [kind |-> kind, ref |-> ref, name |-> NoName]

(* this.resolvedThisExpression = null; this.resolvedElementExpression = null *)
clearResolved(P) ==
  [P EXCEPT !.resolvedThisExpression = NoExpression,
            !.resolvedElementExpression = NoExpression]

(* "search contextual parent namespaces if applicable": the do-while loop *)
RECURSIVE searchNamespaces(_, _, _)
searchNamespaces(P, namespace, name) ==
  IF namespace = Null THEN Null
  ELSE IF Has(P.elementsLookup,
              P.elements[namespace].internalName \o <<STATIC_DELIMITER, name>>)
  THEN P.elementsLookup[P.elements[namespace].internalName \o <<STATIC_DELIMITER, name>>]
  ELSE searchNamespaces(P, P.elements[namespace].namespace, name)

(* "search current file", "search global scope" and the error *)
searchFileAndGlobal(P, identifier) ==
  LET fileName == identifier.source.internalPath \o <<identifier.text>> IN
  IF Has(P.elementsLookup, fileName)
  THEN [P |-> clearResolved(P), element |-> P.elementsLookup[fileName], local |-> Null]
  ELSE IF Has(P.elementsLookup, <<identifier.text>>)
  THEN [P |-> clearResolved(P), element |-> P.elementsLookup[<<identifier.text>>],
        local |-> Null]
  ELSE [P |-> error(P, "Cannot_find_name_0", <<identifier.text>>),
        element |-> Null, local |-> Null]

resolveIdentifier(P, identifier, contextualFunction, contextualEnum) ==
  LET name == identifier.text
      member == IF contextualEnum = Null THEN Null
                ELSE Get(P.elements[contextualEnum].members, name)
      inFunction == contextualEnum = Null /\ contextualFunction # NoFunction
      local == IF inFunction THEN getScopedLocal(contextualFunction, name) ELSE Null
      sibling == IF inFunction
                 THEN searchNamespaces(P, P.elements[contextualFunction.prototype].namespace,
                                       name)
                 ELSE Null
  IN IF member # Null /\ P.elements[member].kind = "ENUMVALUE"
     THEN [P |-> clearResolved(P), element |-> member, local |-> Null]
     ELSE IF local # Null
     THEN [P |-> clearResolved(P), element |-> Null, local |-> local]
     ELSE IF sibling # Null
     THEN [P |-> clearResolved(P), element |-> sibling, local |-> Null]
     ELSE searchFileAndGlobal(P, identifier)

(* Program.initialize: resolve base prototypes of derived classes *)
RECURSIVE resolveExtendsFrom(_, _)
resolveExtendsFrom(P, i) ==
  IF i > Len(P.queuedExtends) THEN P
  ELSE LET derivedPrototype == P.queuedExtends[i]
           derivedDeclaration == P.elements[derivedPrototype].declaration
           r == resolveIdentifier(P, [text |-> derivedDeclaration.extendsType,
                                       source |-> derivedDeclaration.source],
                                  NoFunction, Null)
       IN IF r.element = Null THEN resolveExtendsFrom(r.P, i + 1)
          ELSE IF r.P.elements[r.element].kind = "CLASS_PROTOTYPE"
          THEN resolveExtendsFrom(
                 [r.P EXCEPT !.elements[derivedPrototype].basePrototype = r.element], i + 1)
          ELSE resolveExtendsFrom(
                 error(r.P, "A_class_may_only_extend_another_class",
                       <<derivedDeclaration.extendsType>>), i + 1)

(* Program.initialize: set up global aliases *)
RECURSIVE setGlobalAliasesFrom(_, _)
setGlobalAliasesFrom(P, i) ==
  IF i > Len(P.options.globalAliases) THEN P
  ELSE LET alias == P.options.globalAliases[i].alias
           name == P.options.globalAliases[i].name
           element == Get(P.elementsLookup, name)
       IN setGlobalAliasesFrom(
            IF element # Null THEN [P EXCEPT !.elementsLookup = Set(@, alias, element)] ELSE P,
            i + 1)

(***************************************************************************)
(* The inputs of Program.initialize: the statements a source may hold and  *)
(* the configured global aliases.                                          *)
(***************************************************************************)
Declaration(source, name, flags, decorators) ==
  [name |-> name, flags |-> flags, decorators |-> decorators, source |-> source,
   topLevel |-> TRUE, scope |-> <<>>, extendsType |-> NoName, implementsTypes |-> 0,
   typeParameters |-> <<>>, members |-> <<>>, values |-> <<>>,
   kind |-> "DECLARATION", nameKind |-> "IDENTIFIER", type |-> NoName,
   signature |-> [parameterTypes |-> <<>>, returnType |-> NoName]]

FlagSets == { {}, {"EXPORT"} }

FunctionModifiers ==
  { [flags |-> {}, decorators |-> <<>>],
    [flags |-> {"EXPORT"}, decorators |-> <<>>],
    [flags |-> {}, decorators |-> <<Decorator("GLOBAL")>>],
    [flags |-> {"EXPORT", "BUILTIN"}, decorators |-> <<>>] }

ImportStatements(source) ==
  { [declarations |-> <<[name |-> n, externalName |-> n, source |-> source,
                         scope |-> <<>>]>>,
     namespaceName |-> NoName, internalPath |-> p, source |-> source]
    : n \in Names, p \in ImportPaths }

ExportMembers(source) ==
  { [name |-> "x", externalName |-> "x", source |-> source],
    [name |-> "y", externalName |-> "y", source |-> source],
    [name |-> "x", externalName |-> "y", source |-> source] }

ExportStatements(source) ==
  { [members |-> <<m>>, internalPath |-> p] :
      m \in ExportMembers(source), p \in {NoPath} \cup ExportPaths }

(* the functions a namespace declaration may hold: none, f or g *)
Member(source, scope, name, flags) ==
  [Declaration(source, name, flags, <<>>) EXCEPT !.topLevel = FALSE, !.scope = scope]

NamespaceMembers(source, name) ==
  { <<>>, <<Member(source, <<name, STATIC_DELIMITER>>, "f", {"EXPORT"})>>,
          <<Member(source, <<name, STATIC_DELIMITER>>, "g", {"EXPORT"})>> }

GlobalAliasOptions ==
  { <<>>, << [alias |-> <<"x">>, name |-> <<"a", "y">>] >> }

(***************************************************************************)
(* Program.initialize as a state machine.  init holds the position in      *)
(* initialize: the phase (pc), the source being processed, the number of   *)
(* statements seen, and the locals of the two drain loops: the index i     *)
(* into queuedImports with the name tryResolveImport is looking at (NoPath *)
(* before the call) and whether that is the alternative name; the index e  *)
(* into queuedExports with the key of currentExport (NoPath before the     *)
(* do-while loop is entered).                                              *)
(***************************************************************************)
NoSource == [internalPath |-> NoPath, isEntry |-> FALSE]

(* the resolver has not been used while initialize runs *)
NoResolver == [thrown |-> NoName]

(* no function is being compiled *)
NoFlow == [thrown |-> NoName]

(* the names initialize puts into typesLookup at its entry *)
BasicTypeNames ==
  {"i8", "i16", "i32", "i64", "isize", "u8", "u16", "u32", "u64", "usize",
   "bool", "f32", "f64", "void", "number", "boolean"}

(* new Program() *)
EmptyProgram ==
  [elements |-> <<>>,
   elementsLookup |-> EmptyMap,
   fileLevelExports |-> EmptyMap,
   moduleLevelExports |-> EmptyMap,
   diagnostics |-> {},
   queuedExports |-> <<>>,
   queuedImports |-> <<>>,
   queuedExtends |-> <<>>,
   queuedImplements |-> <<>>,
   typesLookup |-> BasicTypeNames,
   typeAliases |-> EmptyMap,
   arrayPrototype |-> Null,
   arrayBufferViewPrototype |-> Null,
   stringInstance |-> Null,
   resolvedThisExpression |-> NoExpression,
   resolvedElementExpression |-> NoExpression,
   options |-> [globalAliases |-> <<>>]]

(* the entry of initialize *)
InitialPosition ==
  [pc |-> "statements", source |-> NoSource, sources |-> 0, statements |-> 0,
   i |-> 1, referencedName |-> NoPath, alt |-> FALSE,
   e |-> 1, currentExport |-> NoPath, namespaces |-> <<>>, thrown |-> NoName]

InitProgram ==
  /\ program = EmptyProgram
  /\ init = InitialPosition
  /\ resolver = NoResolver
  /\ flow = NoFlow

InStatements == init.pc = "statements" /\ init.source # NoSource
                /\ init.statements < MaxStatements

Statement(P) ==
  /\ program' = P
  /\ init' = [init EXCEPT !.statements = @ + 1]
  /\ UNCHANGED <<resolver, flow>>

(* the loop conditions of the two drains: where initialize goes from the
   head of the import loop, and from the head of the export loop *)
exportsOrFinish(P, e) == IF e <= Len(P.queuedExports) THEN "exports" ELSE "finish"

importsOrLater(P, i) == IF i <= Len(P.queuedImports) THEN "imports" ELSE exportsOrFinish(P, 1)

(* the outer loop of the pass: the next of program.sources *)
NextSource ==
  /\ init.pc = "statements"
  /\ init.sources < MaxSources
  /\ \E k \in 1..Len(SourcePool) :
       /\ init.source = NoSource \/ \E j \in 1..(k - 1) : SourcePool[j] = init.source
       /\ init' = [init EXCEPT !.source = SourcePool[k], !.sources = @ + 1]
  /\ UNCHANGED <<program, resolver, flow>>

ClassDeclaration ==
  /\ InStatements
  /\ \E n \in Names, f \in FlagSets :
       Statement(initializeClass(program, Declaration(init.source, n, f, <<>>)))

EnumDeclaration ==
  /\ InStatements
  /\ \E f \in FlagSets :
       Statement(initializeEnum(program, Declaration(init.source, "y", f, <<>>)))

FunctionDeclaration ==
  /\ InStatements
  /\ \E n \in Names, m \in FunctionModifiers :
       Statement(initializeFunction(program,
         Declaration(init.source, n, m.flags, m.decorators), Null))

InterfaceDeclaration ==
  /\ InStatements
  /\ \E f \in FlagSets :
       Statement(initializeInterface(program, Declaration(init.source, "y", f, <<>>)))

(* a namespace declaration; init.namespaces remembers the namespace
   declarations the pass has come across, in order *)
NamespaceDeclaration ==
  /\ InStatements
  /\ \E f \in FlagSets, m \in NamespaceMembers(init.source, "x") :
       LET declaration == [Declaration(init.source, "x", f, <<>>) EXCEPT !.members = m] IN
       /\ program' = initializeNamespace(program, declaration)
       /\ init' = [init EXCEPT !.statements = @ + 1,
                                !.namespaces = Append(@, declaration)]
  /\ UNCHANGED <<resolver, flow>>

VariableStatement ==
  /\ InStatements
  /\ \E f \in FlagSets :
       Statement(initializeVariables(program,
         [declarations |-> <<Declaration(init.source, "y", f, <<>>)>>]))

ImportStatement ==
  /\ InStatements
  /\ \E s \in ImportStatements(init.source) : Statement(initializeImports(program, s))

ExportStatement ==
  /\ InStatements
  /\ \E s \in ExportStatements(init.source) : Statement(initializeExports(program, s))

(* the pass is over: on to the queued imports *)
EndOfSources ==
  /\ init.pc = "statements"
  /\ init' = [init EXCEPT !.pc = importsOrLater(program, 1), !.source = NoSource]
  /\ UNCHANGED <<program, resolver, flow>>

(* one iteration of tryResolveImport's loop for queuedImports[i], and, when
   the call returns, what the import drain does with its result *)
TryResolveImport ==
  /\ init.pc = "imports"
  /\ UNCHANGED <<resolver, flow>>
  /\ LET queuedImport == program.queuedImports[init.i]
         referencedName == IF init.referencedName = NoPath
                           THEN queuedImport.referencedName ELSE init.referencedName
         r == tryResolveImportStep(program, referencedName)
     IN IF ~r.done
        THEN /\ init' = [init EXCEPT !.pc = "importsContinue",
                                      !.referencedName = r.referencedName]
             /\ UNCHANGED program
        ELSE IF r.element # Null
        THEN /\ program' = [program EXCEPT
                  !.elementsLookup = Set(@, queuedImport.internalName, r.element),
                  !.queuedImports = splice(@, init.i)]
             /\ init' = [init EXCEPT !.pc = importsOrLater(program', init.i),
                           !.referencedName = NoPath, !.alt = FALSE]
        ELSE IF ~init.alt
        THEN /\ init' = [init EXCEPT !.alt = TRUE,
                  !.referencedName = queuedImport.referencedNameAlt]
             /\ UNCHANGED program
        ELSE /\ program' = error(program, "Module_0_has_no_exported_member_1",
                                 queuedImport.path \o <<queuedImport.declaration.externalName>>)
             /\ init' = [init EXCEPT !.pc = importsOrLater(program, init.i + 1),
                           !.i = @ + 1, !.referencedName = NoPath, !.alt = FALSE]

(* tryResolveImport: "continue" takes the do { } while (true) loop back to
   its head *)
TryResolveImportContinue ==
  /\ init.pc = "importsContinue"
  /\ init' = [init EXCEPT !.pc = "imports"]
  /\ UNCHANGED <<program, resolver, flow>>

(* one iteration of the do-while loop that follows queuedExports[e] *)
FollowExport ==
  /\ init.pc = "exports"
  /\ UNCHANGED <<resolver, flow>>
  /\ LET queuedExport == program.queuedExports[init.e]
         exportName == queuedExport.key
         currentExport == IF init.currentExport = NoPath THEN queuedExport
                          ELSE QueuedGet(program.queuedExports, init.currentExport)
         identifier == [text |-> currentExport.member.externalName,
                        source |-> currentExport.member.source]
         leave == [init EXCEPT !.pc = exportsOrFinish(program, init.e + 1),
                     !.e = @ + 1, !.currentExport = NoPath]
     IN IF currentExport.isReExport
        THEN IF Has(program.fileLevelExports, currentExport.referencedName)
             THEN /\ program' = setExportAndCheckLibrary(program, exportName,
                                  program.fileLevelExports[currentExport.referencedName],
                                  identifier)
                  /\ init' = leave
             ELSE IF QueuedHas(program.queuedExports, currentExport.referencedName)
             THEN /\ init' = [init EXCEPT !.pc = "exportsWhile",
                                           !.currentExport = currentExport.referencedName]
                  /\ UNCHANGED program
             ELSE /\ program' = error(program, "Module_0_has_no_exported_member_1",
                                  queuedExport.path \o <<queuedExport.member.externalName>>)
                  /\ init' = leave
        ELSE LET element ==
                   IF Has(program.elementsLookup, currentExport.referencedName)
                   THEN program.elementsLookup[currentExport.referencedName]
                   ELSE Get(program.elementsLookup, <<currentExport.member.name>>)
             IN /\ program' =
                     IF element # Null
                     THEN setExportAndCheckLibrary(program, exportName, element, identifier)
                     ELSE error(program, "Cannot_find_name_0", <<queuedExport.member.name>>)
                /\ init' = leave

(* the export drain: while (currentExport) holds, back to the loop's head *)
WhileCurrentExport ==
  /\ init.pc = "exportsWhile"
  /\ init' = [init EXCEPT !.pc = "exports"]
  /\ UNCHANGED <<program, resolver, flow>>

(* Program.initialize: register 'Array' *)
registerArray(P) ==
  LET arrayPrototype == Get(P.elementsLookup, <<"Array">>) IN
  IF arrayPrototype = Null THEN [P |-> P, thrown |-> NoName]
  ELSE IF P.elements[arrayPrototype].kind # "CLASS_PROTOTYPE"
  THEN [P |-> P, thrown |-> "assertion failed"]
  ELSE [P |-> [P EXCEPT !.arrayPrototype = arrayPrototype], thrown |-> NoName]

(* Program.initialize: register 'ArrayBufferView' *)
registerArrayBufferView(r) ==
  LET arrayBufferViewPrototype == Get(r.P.elementsLookup, <<"ArrayBufferView">>) IN
  IF r.thrown # NoName \/ arrayBufferViewPrototype = Null THEN r
  ELSE IF r.P.elements[arrayBufferViewPrototype].kind # "INTERFACE_PROTOTYPE"
  THEN [r EXCEPT !.thrown = "assertion failed"]
  ELSE [r EXCEPT !.P.arrayBufferViewPrototype = arrayBufferViewPrototype]

(* stringPrototype.resolve(null) as initialize calls it: the classes that
   are named String here extend nothing and have no members, so that
   ClassPrototype.resolve checks the type arguments (none are given) against
   the declared type parameters and makes the instance, which is named by
   its prototype *)
resolveString(P, stringPrototype) ==
  IF Len(P.elements[stringPrototype].declaration.typeParameters) > 0
  THEN [instance |-> Null, thrown |-> "type argument count mismatch"]
  ELSE [instance |-> stringPrototype, thrown |-> NoName]

(* Program.initialize: register 'String' *)
registerString(r) ==
  LET stringPrototype == Get(r.P.elementsLookup, <<"String">>) IN
  IF r.thrown # NoName \/ stringPrototype = Null THEN r
  ELSE IF r.P.elements[stringPrototype].kind # "CLASS_PROTOTYPE"
  THEN [r EXCEPT !.thrown = "assertion failed"]
  ELSE LET s == resolveString(r.P, stringPrototype) IN
       IF s.thrown # NoName THEN [r EXCEPT !.thrown = s.thrown]
       ELSE IF s.instance = Null THEN r
       ELSE IF "string" \in r.P.typesLookup
       THEN [r EXCEPT !.P = error(r.P, "Duplicate_identifier_0",
                                  r.P.elements[stringPrototype].internalName)]
       ELSE [r EXCEPT !.P.stringInstance = s.instance,
                      !.P.typesLookup = @ \cup {"string"}]

(* the rest of initialize: resolve the base prototypes of derived classes,
   set up the configured global aliases and register the well-known
   prototypes; an exception leaves initialize at once (pc = "thrown") *)
FinishInitialize ==
  /\ init.pc = "finish"
  /\ UNCHANGED <<resolver, flow>>
  /\ \E g \in GlobalAliasOptions :
       LET r == registerString(registerArrayBufferView(registerArray(
                  setGlobalAliasesFrom(
                    resolveExtendsFrom([program EXCEPT !.options.globalAliases = g], 1), 1))))
       IN /\ program' = r.P
          /\ init' = [init EXCEPT !.pc = IF r.thrown = NoName THEN "done" ELSE "thrown",
                                   !.thrown = r.thrown]

NextInitialize ==
  \/ NextSource
  \/ ClassDeclaration
  \/ EnumDeclaration
  \/ FunctionDeclaration
  \/ InterfaceDeclaration
  \/ NamespaceDeclaration
  \/ VariableStatement
  \/ ImportStatement
  \/ ExportStatement
  \/ EndOfSources
  \/ TryResolveImport
  \/ TryResolveImportContinue
  \/ FollowExport
  \/ WhileCurrentExport
  \/ FinishInitialize

SpecInitialize == InitProgram /\ [][NextInitialize]_vars

(* Program.initialize runs to completion: it is one sequential call, so it
   takes its next step whenever it has one *)
FairSpecInitialize == SpecInitialize /\ WF_vars(NextInitialize)

(***************************************************************************)
(* Properties of Program.initialize.                                       *)
(***************************************************************************)
Returned == init.pc = "done"

elementOf(k) == program.elements[program.elementsLookup[k]]

(* the keys of a table that belong to a source with isEntry set: the key is
   the source's internal path followed by the exported name *)
isEntryKey(k) ==
  \E s \in 1..Len(SourcePool) :
    /\ SourcePool[s].isEntry
    /\ Len(k) = Len(SourcePool[s].internalPath) + 1
    /\ SubSeq(k, 1, Len(k) - 1) = SourcePool[s].internalPath

(* C2, as stated: after initialize returns, every key k of elementsLookup
   is the internalName of its value. *)
KeysAreInternalNames ==
  Returned => \A k \in DOMAIN program.elementsLookup : elementOf(k).internalName = k

(* C2, amended: every key k of elementsLookup that is the file-level name
   under which its value was declared is that value's internalName, unless
   the value was renamed to a global (path-less) name: a builtin promoted
   by checkGlobalOptions, or an element a library export statement
   exports.  The other keys (global names, import names, configured
   aliases) are aliases. *)
DeclaredKeysAreInternalNames ==
  \A k \in DOMAIN program.elementsLookup :
    k = fileLevelInternalName(elementOf(k).declaration) =>
      \/ elementOf(k).internalName = k
      \/ /\ Len(elementOf(k).internalName) = 1
         /\ \/ "BUILTIN" \in elementOf(k).flags
            \/ \E n \in DOMAIN program.fileLevelExports :
                 /\ program.fileLevelExports[n] = program.elementsLookup[k]
                 /\ n[1] = LIBRARY_SUBST

(* C2 witness: initialize has returned with a declared key that is its
   value's internalName, a declared key whose value was renamed, and an
   alias key. *)
DeclaredAndAliasKeys ==
  /\ Returned
  /\ \E k \in DOMAIN program.elementsLookup :
       k = fileLevelInternalName(elementOf(k).declaration) /\ elementOf(k).internalName = k
  /\ \E k \in DOMAIN program.elementsLookup :
       k = fileLevelInternalName(elementOf(k).declaration) /\ elementOf(k).internalName # k
  /\ \E k \in DOMAIN program.elementsLookup :
       k # fileLevelInternalName(elementOf(k).declaration) /\ elementOf(k).internalName # k

(* C3: once a key of elementsLookup is bound to an element, no step of
   initialize rebinds it to a different element. *)
ElementsLookupNeverRebound ==
  [][\A k \in DOMAIN program.elementsLookup :
       /\ k \in DOMAIN program.elementsLookup'
       /\ program.elementsLookup'[k] = program.elementsLookup[k]]_vars

(* C4: once fileLevelExports (respectively moduleLevelExports) holds an
   element under a name, no step of initialize binds the name to a
   different element. *)
ExportsNeverRebound ==
  [][/\ \A k \in DOMAIN program.fileLevelExports :
          /\ k \in DOMAIN program.fileLevelExports'
          /\ program.fileLevelExports'[k] = program.fileLevelExports[k]
     /\ \A k \in DOMAIN program.moduleLevelExports :
          /\ k \in DOMAIN program.moduleLevelExports'
          /\ program.moduleLevelExports'[k] = program.moduleLevelExports[k]]_vars

(* C5: after initialize returns, every entry of fileLevelExports made from
   a source with isEntry set is also the entry of moduleLevelExports under
   that name, and its element carries MODULE_EXPORT. *)
EntryExportsAreModuleExports ==
  Returned =>
    \A k \in DOMAIN program.fileLevelExports :
      isEntryKey(k) =>
        /\ Has(program.moduleLevelExports, k)
        /\ program.moduleLevelExports[k] = program.fileLevelExports[k]
        /\ "MODULE_EXPORT" \in program.elements[program.fileLevelExports[k]].flags

(* C6: after initialize returns, an import that was reported as having no
   exported member (it is still queued) names nothing that is exported,
   neither under its path nor under the alternative path. *)
UnresolvedImportsHaveNoExport ==
  Returned =>
    \A i \in 1..Len(program.queuedImports) :
      /\ ~Has(program.fileLevelExports, program.queuedImports[i].referencedName)
      /\ ~Has(program.fileLevelExports, program.queuedImports[i].referencedNameAlt)

(* C7: initialize terminates. *)
InitializeTerminates == <>Returned

(* the Namespace elements made for the declarations named n *)
NamespaceElements(n) ==
  { e \in 1..Len(program.elements) :
      /\ program.elements[e].kind = "NAMESPACE"
      /\ fileLevelInternalName(program.elements[e].declaration) = n }

(* two namespace declarations of the pass that share their internal name *)
MergedNamespaces ==
  { ij \in (1..Len(init.namespaces)) \X (1..Len(init.namespaces)) :
      /\ ij[1] < ij[2]
      /\ fileLevelInternalName(init.namespaces[ij[1]])
           = fileLevelInternalName(init.namespaces[ij[2]]) }

(* C12: after initialize returns, two namespace declarations with the same
   internal name have yielded exactly one Namespace element, and its
   members map holds the members of both declarations. *)
NamespacesMerge ==
  Returned =>
    \A ij \in MergedNamespaces :
      LET n == fileLevelInternalName(init.namespaces[ij[1]]) IN
      /\ Cardinality(NamespaceElements(n)) = 1
      /\ \A e \in NamespaceElements(n), k \in {ij[1], ij[2]} :
           \A m \in 1..Len(init.namespaces[k].members) :
             Has(program.elements[e].members, init.namespaces[k].members[m].name)

(* C13: after initialize returns, two namespace declarations with the same
   internal name of which exactly one carries export have been reported:
   "Individual declarations in merged declaration must be all exported or
   all local". *)
MixedExportsReported ==
  Returned =>
    \A ij \in MergedNamespaces :
      ("EXPORT" \in init.namespaces[ij[1]].flags) # ("EXPORT" \in init.namespaces[ij[2]].flags)
        => \E d \in program.diagnostics :
             d[1] = "Individual_declarations_in_merged_declaration_0_must_be_all_exported_or_all_local"

(***************************************************************************)
(* The resolver: ClassPrototype.resolve, FunctionPrototype.resolve (of a   *)
(* constructor) and Program.resolveType over the class prototypes of an    *)
(* initialized program.  resolver holds the class declarations, the        *)
(* instances maps of the prototypes, the heaps of the Class and Function   *)
(* instances made so far, and what has been stored into the instances maps *)
(* and returned by the resolve calls.  The classes of ClassDeclarations    *)
(* have no type parameters, so their type arguments are always empty and   *)
(* their instance key is the empty string; their members are fields.       *)
(***************************************************************************)
MaxFields == 2
MaxDepth == 8

ClassNames == {"B", "D"}
(* the names of the fields of a class, in declaration order *)
FieldNames == [B |-> <<"f", "g", "h">>, D |-> <<"g", "f", "h">>]
BasicTypes == {"i8", "i16", "i32", "i64"}
TypeNames == BasicTypes \cup ClassNames
UsizeSizes == {4, 8}

(* Type.byteSize of the basic types *)
byteSize(name) ==
  CASE name = "i8" -> 1
    [] name = "i16" -> 2
    [] name = "i32" -> 4
    [] name = "i64" -> 8

NoType == [kind |-> "none", name |-> NoName, byteSize |-> 0, classReference |-> Null,
           signatureReference |-> Null]

(* a TypeNode that names a type, without and with type arguments, and the
   SignatureNode of a function without parameters *)
TypeNode(name) == [kind |-> "TYPE", name |-> name, typeArguments |-> <<>>]

GenericTypeNode(name, typeArguments) ==
  [kind |-> "TYPE", name |-> name, typeArguments |-> typeArguments]

SignatureNode(returnType) ==
  [kind |-> "SIGNATURE", name |-> returnType, typeArguments |-> <<>>]

(* typesToString: the canonical key of a list of types *)
typesToString(types) == [i \in 1..Len(types) |-> types[i].name]

(* throw / a failed assert: the exception unwinds every frame *)
throw(R, what) == [R EXCEPT !.thrown = what]

(* x & mask and x | mask for a mask 2^k - 1 *)
and(x, mask) == x % (mask + 1)
or(x, mask) == (x - (x % (mask + 1))) + mask

(* field layout without the align switch *)
unaligned(memoryOffset, size) == memoryOffset

(* the align switch of the field layout, for a size of 1, 2, 4 or 8 *)
align(memoryOffset, size) ==
  CASE size = 1 -> memoryOffset
    [] size = 2 -> IF and(memoryOffset, 1) # 0 THEN memoryOffset + 1 ELSE memoryOffset
    [] size = 4 -> IF and(memoryOffset, 3) # 0 THEN or(memoryOffset, 3) + 1 ELSE memoryOffset
    [] size = 8 -> IF and(memoryOffset, 7) # 0 THEN or(memoryOffset, 7) + 1 ELSE memoryOffset

RECURSIVE ClassPrototype_resolve(_, _, _, _)
RECURSIVE FunctionPrototype_resolve(_, _, _, _)
RECURSIVE resolveType(_, _, _)
RECURSIVE resolveTypeArgumentsFrom(_, _, _, _, _)
RECURSIVE resolveFields(_, _, _, _, _, _)
RECURSIVE MethodPrototype_resolve(_, _, _)
RECURSIVE resolveOverloads(_, _, _, _, _)

(* Element.hasDecorator, and an Element that never admits to a decorator *)
hasNoDecorator(element, flag) == FALSE

hasDecorator(element, flag) == flag \in element.decoratorFlags

(* the internal name of an instance: that of its prototype, followed by the
   instance key in angle brackets unless the key is empty *)
instanceName(internalName, instanceKey) ==
  IF Len(instanceKey) > 0 THEN internalName \o <<"<">> \o instanceKey \o <<">">>
  ELSE internalName

(* the loops of resolveTypeArguments and of resolveType ("resolve
   parameters") over type argument nodes, from node i on, once the node
   before is resolved (t): yields the types, or no types when one fails *)
resolveTypeArgumentsFrom(t, typeArgumentNodes, i, types, depth) ==
  IF t.R.thrown # NoName \/ (i > 1 /\ t.type = NoType)
  THEN [R |-> t.R, typeArguments |-> <<>>, resolved |-> FALSE]
  ELSE IF i > Len(typeArgumentNodes)
  THEN [R |-> t.R,
        typeArguments |-> IF i > 1 THEN Append(types, t.type) ELSE types,
        resolved |-> TRUE]
  ELSE resolveTypeArgumentsFrom(
         resolveType(t.R, typeArgumentNodes[i], depth + 1),
         typeArgumentNodes, i + 1,
         IF i > 1 THEN Append(types, t.type) ELSE types, depth)

(* Program.resolveTypeArguments *)
resolveTypeArguments(R, typeParameters, typeArgumentNodes, depth) ==
  IF Len(typeParameters) # Len(typeArgumentNodes)
  THEN [R |-> IF Len(typeArgumentNodes) > 0
              THEN [R EXCEPT !.diagnostics = @ \cup
                      {<<"Expected_0_type_arguments_but_got_1", typeArgumentNodes[1].name>>}]
              ELSE R,
        typeArguments |-> <<>>, resolved |-> FALSE]
  ELSE resolveTypeArgumentsFrom([R |-> R, type |-> NoType], typeArgumentNodes, 1, <<>>, depth)

(* ClassPrototype.resolveUsingTypeArguments, once the type arguments are
   resolved (a) *)
resolveUsing(a, name, depth) ==
  IF a.R.thrown # NoName \/ ~a.resolved THEN [R |-> a.R, instance |-> Null]
  ELSE ClassPrototype_resolve(a.R, name, a.typeArguments, depth)

(* ClassPrototype.resolveUsingTypeArguments *)
resolveUsingTypeArguments(R, name, typeArgumentNodes, depth) ==
  IF "GENERIC" \in R.declarations[name].flags
  THEN IF Len(typeArgumentNodes) = 0
       THEN [R |-> throw(R, "assertion failed"), instance |-> Null]
       ELSE resolveUsing(
              resolveTypeArguments(R, R.declarations[name].typeParameters,
                                   typeArgumentNodes, depth),
              name, depth)
  ELSE IF Len(typeArgumentNodes) # 0
  THEN [R |-> throw(R, "assertion failed"), instance |-> Null]
  ELSE ClassPrototype_resolve(R, name, <<>>, depth)

(* Program.resolveSignature of a node without parameters and without an
   explicit this type, once the return type is resolved (t): new Signature;
   and Type.u32.asFunction(signature), a new Type that refers to it *)
newSignature(t) ==
  IF t.R.thrown # NoName \/ t.type = NoType THEN [R |-> t.R, type |-> NoType]
  ELSE [R |-> [t.R EXCEPT !.signatures = Append(@,
                 [parameterTypes |-> <<>>, returnType |-> t.type, thisType |-> Null])],
        type |-> [kind |-> "function", name |-> "u32", byteSize |-> 4,
                  classReference |-> Null,
                  signatureReference |-> Len(t.R.signatures) + 1]]

(* resolveType: "resolve parameters" of a name that is no class, once the
   type arguments are resolved (a): no type of typesLookup has arguments *)
resolveParameters(a, name) ==
  IF a.R.thrown # NoName \/ ~a.resolved THEN [R |-> a.R, type |-> NoType]
  ELSE [R |-> [a.R EXCEPT !.diagnostics = @ \cup {<<"Cannot_find_name_0", name>>}],
        type |-> NoType]

(* resolveType: "return instance ? instance.type : null" *)
instanceType(r) ==
  [R |-> r.R,
   type |-> IF r.instance # Null THEN r.R.classes[r.instance].type ELSE NoType]

(***************************************************************************)
(* Program.resolveType (no contextual type arguments): a signature node is *)
(* resolved to a function type; a class prototype found in elementsLookup  *)
(* is resolved and its instance's type returned; a type alias is replaced  *)
(* by its type; otherwise the name is looked up in typesLookup.  The call  *)
(* stack holds MaxDepth calls: one more throws.                            *)
(***************************************************************************)
resolveType(R, node, depth) ==
  IF depth > MaxDepth
  THEN [R |-> throw(R, "Maximum call stack size exceeded"), type |-> NoType]
  ELSE IF node.kind = "SIGNATURE"
  THEN newSignature(resolveType(R, TypeNode(node.name), depth + 1))
  ELSE IF node.name \in DOMAIN R.declarations
  THEN instanceType(resolveUsingTypeArguments(R, node.name, node.typeArguments, depth))
  ELSE IF Has(R.typeAliases, node.name)
  THEN resolveType(R, TypeNode(R.typeAliases[node.name].type), depth + 1)
  ELSE IF Len(node.typeArguments) > 0
  THEN resolveParameters(
         resolveTypeArgumentsFrom([R |-> R, type |-> NoType], node.typeArguments, 1, <<>>,
                                  depth),
         node.name)
  ELSE IF node.name \in BasicTypes
  THEN [R |-> R,
        type |-> [kind |-> "basic", name |-> node.name, byteSize |-> byteSize(node.name),
                  classReference |-> Null, signatureReference |-> Null]]
  ELSE [R |-> [R EXCEPT !.diagnostics = @ \cup {<<"Cannot_find_name_0", node.name>>}],
        type |-> NoType]

(* FunctionPrototype.resolve, once the class of the instance method is
   resolved (c): the signature, new Function(...) and instances.set *)
resolveFunctionOf(c, name, instanceKey) ==
  IF c.R.thrown # NoName \/ c.instance = Null
  THEN [R |-> c.R, instance |-> Null]
  ELSE
  LET R1 == [c.R EXCEPT !.functions = Append(@,
               [prototype |-> name,
                returnType |-> c.R.classes[c.instance].type,
                parent |-> c.instance])]
      instance == Len(c.R.functions) + 1
  IN [R |-> [R1 EXCEPT
               !.constructorInstances[name] = Set(@, instanceKey, instance),
               !.stored = @ \cup {<<"function", name, instanceKey, instance>>},
               !.returned = @ \cup {<<"function", name, instanceKey, instance>>}],
      instance |-> instance]

(***************************************************************************)
(* FunctionPrototype.resolve of the constructor of class name: an instance *)
(* method without parameters and without type parameters.                  *)
(***************************************************************************)
FunctionPrototype_resolve(R, name, functionTypeArguments, depth) ==
  IF depth > MaxDepth
  THEN [R |-> throw(R, "Maximum call stack size exceeded"), instance |-> Null]
  ELSE IF Has(R.constructorInstances[name], typesToString(functionTypeArguments))
  THEN [R |-> [R EXCEPT !.returned = @ \cup
                 {<<"function", name, typesToString(functionTypeArguments),
                    R.constructorInstances[name][typesToString(functionTypeArguments)]>>}],
        instance |-> R.constructorInstances[name][typesToString(functionTypeArguments)]]
  ELSE resolveFunctionOf(ClassPrototype_resolve(R, name, <<>>, depth + 1),
                         name, typesToString(functionTypeArguments))

(* the field case of the loop over instanceMembers, once the field's type
   is resolved (t): new Field(...), the align switch, members.set *)
layoutField(t, name, instance, i, memoryOffset, depth) ==
  IF t.R.thrown # NoName
  THEN [R |-> t.R, memoryOffset |-> memoryOffset]
  ELSE IF t.type = NoType
  THEN resolveFields(t.R, name, instance, i + 1, memoryOffset, depth)
  ELSE IF t.type.byteSize \notin {1, 2, 4, 8}
  THEN [R |-> throw(t.R, "assertion failed"), memoryOffset |-> memoryOffset]
  ELSE
  LET fieldName == t.R.declarations[name].members[i].name
      fieldInstance == [kind |-> "FIELD",
                        simpleName |-> fieldName,
                        internalName |-> <<name, fieldName>>,
                        type |-> t.type,
                        memoryOffset |-> align(memoryOffset, t.type.byteSize)]
  IN resolveFields(
       [t.R EXCEPT !.classes[instance].members = Set(@, fieldName, fieldInstance)],
       name, instance, i + 1,
       align(memoryOffset, t.type.byteSize) + t.type.byteSize, depth)

(* FunctionPrototype.resolvePartial: the prototype itself when there are no
   class type arguments, otherwise a new FunctionPrototype that holds them *)
resolvePartial(R, prototype, classTypeArguments) ==
  IF "INSTANCE" \notin R.prototypes[prototype].flags
  THEN [R |-> throw(R, "assertion failed"), prototype |-> Null]
  ELSE IF Len(classTypeArguments) = 0
  THEN [R |-> R, prototype |-> prototype]
  ELSE [R |-> [R EXCEPT !.prototypes = Append(@,
                 [R.prototypes[prototype] EXCEPT
                    !.internalName =
                       instanceName(
                         R.declarations[R.prototypes[prototype].classPrototype].internalName,
                         typesToString(classTypeArguments))
                       \o <<INSTANCE_DELIMITER, R.prototypes[prototype].simpleName>>,
                    !.classTypeArguments = classTypeArguments,
                    !.instances = EmptyMap])],
        prototype |-> Len(R.prototypes) + 1]

(* the method case of the loop over instanceMembers, once the method is
   partially resolved (r) *)
setPartialMethod(r, instance) ==
  IF r.R.thrown # NoName \/ r.prototype = Null THEN r.R
  ELSE [r.R EXCEPT
          !.prototypes[r.prototype].internalName =
             r.R.classes[instance].internalName
             \o <<INSTANCE_DELIMITER, r.R.prototypes[r.prototype].simpleName>>,
          !.classes[instance].members =
             Set(@, r.R.prototypes[r.prototype].simpleName,
                 [kind |-> "FUNCTION_PROTOTYPE",
                  simpleName |-> r.R.prototypes[r.prototype].simpleName,
                  prototype |-> r.prototype])]

partialMethod(R, instance, prototype) ==
  setPartialMethod(resolvePartial(R, prototype, R.classes[instance].typeArguments), instance)

(***************************************************************************)
(* ClassPrototype.resolve: the loop over instanceMembers, from member i on *)
(* (the members are fields and methods).  Yields the memory offset after   *)
(* the last field laid out.                                                *)
(***************************************************************************)
resolveFields(R, name, instance, i, memoryOffset, depth) ==
  IF i > Len(R.declarations[name].members)
  THEN [R |-> R, memoryOffset |-> memoryOffset]
  ELSE IF R.declarations[name].members[i].kind = "FUNCTION_PROTOTYPE"
  THEN resolveFields(partialMethod(R, instance, R.declarations[name].members[i].prototype),
                     name, instance, i + 1, memoryOffset, depth)
  ELSE layoutField(resolveType(R, TypeNode(R.declarations[name].members[i].type), depth + 1),
                   name, instance, i, memoryOffset, depth)

(* FunctionPrototype.resolve of a method, once its return type is resolved
   (t): the signature, new Function(...) and instances.set *)
newMethod(t, prototype, classInstance) ==
  IF t.R.thrown # NoName \/ t.type = NoType
  THEN [R |-> t.R, instance |-> Null]
  ELSE [R |-> [t.R EXCEPT
                 !.functions = Append(@,
                    [prototype |-> prototype,
                     internalName |-> t.R.prototypes[prototype].internalName,
                     returnType |-> t.type,
                     parent |-> classInstance]),
                 !.prototypes[prototype].instances =
                    Set(@, <<>>, Len(t.R.functions) + 1)],
        instance |-> Len(t.R.functions) + 1]

(* FunctionPrototype.resolve of a method, once the class of an instance
   method is resolved (c): the return type of the signature node *)
resolveMethodOf(c, prototype, depth) ==
  IF c.R.thrown # NoName \/ c.instance = Null
  THEN [R |-> c.R, instance |-> Null]
  ELSE newMethod(resolveType(c.R, TypeNode(c.R.prototypes[prototype].returnType), depth + 1),
                 prototype, c.instance)

(***************************************************************************)
(* FunctionPrototype.resolve() of the prototype of a method, declared or   *)
(* partially resolved: no function type arguments and no parameters.       *)
(***************************************************************************)
MethodPrototype_resolve(R, prototype, depth) ==
  LET this == R.prototypes[prototype] IN
  IF depth > MaxDepth
  THEN [R |-> throw(R, "Maximum call stack size exceeded"), instance |-> Null]
  ELSE IF Has(this.instances, <<>>)
  THEN [R |-> R, instance |-> this.instances[<<>>]]
  ELSE IF Len(this.classTypeArguments) > 0
          /\ ("INSTANCE" \notin this.flags
              \/ Len(R.declarations[this.classPrototype].typeParameters)
                    # Len(this.classTypeArguments))
  THEN [R |-> throw(R, "assertion failed"), instance |-> Null]
  ELSE IF "INSTANCE" \in this.flags
  THEN resolveMethodOf(
         ClassPrototype_resolve(R, this.classPrototype, this.classTypeArguments, depth + 1),
         prototype, depth)
  ELSE newMethod(resolveType(R, TypeNode(this.returnType), depth + 1), prototype, Null)

(* the body of the loop over overloadPrototypes, once the operator's
   instance is resolved (f) *)
setOverload(f, instance, kind, memoryOffset) ==
  [R |-> IF f.R.thrown # NoName \/ f.instance = Null THEN f.R
         ELSE [f.R EXCEPT !.classes[instance].overloads =
                             OverloadsSet(@, kind, f.instance)],
   memoryOffset |-> memoryOffset]

(* the body of the loop over overloadPrototypes, once an instance method is
   partially resolved (r) *)
resolveOperator(r, depth) ==
  IF r.R.thrown # NoName \/ r.prototype = Null
  THEN [R |-> r.R, instance |-> Null]
  ELSE MethodPrototype_resolve(r.R, r.prototype, depth + 1)

(* ClassPrototype.resolve: "Fully resolve operator overloads", from entry j
   of overloadPrototypes on, after the loop over the members (m) *)
resolveOverloads(m, name, instance, j, depth) ==
  IF m.R.thrown # NoName \/ j > Len(m.R.declarations[name].overloadPrototypes) THEN m
  ELSE resolveOverloads(
         setOverload(
           IF "INSTANCE" \in m.R.prototypes[
                m.R.declarations[name].overloadPrototypes[j].prototype].flags
           THEN resolveOperator(
                  resolvePartial(m.R, m.R.declarations[name].overloadPrototypes[j].prototype,
                                 m.R.classes[instance].typeArguments),
                  depth)
           ELSE MethodPrototype_resolve(
                  m.R, m.R.declarations[name].overloadPrototypes[j].prototype, depth + 1),
           instance, m.R.declarations[name].overloadPrototypes[j].kind, m.memoryOffset),
         name, instance, j + 1, depth)

(* the end of ClassPrototype.resolve, after the loop over the members (m) *)
resolveEnd(m, name, instanceKey, instance) ==
  IF m.R.thrown # NoName THEN [R |-> m.R, instance |-> Null]
  ELSE [R |-> [m.R EXCEPT !.classes[instance].currentMemoryOffset = m.memoryOffset,
                          !.returned = @ \cup {<<"class", name, instanceKey, instance>>}],
        instance |-> instance]

(* ClassPrototype.resolve, once the constructor is resolved (f) *)
resolveMembers(f, name, instanceKey, instance, memoryOffset, depth) ==
  IF f.R.thrown # NoName THEN [R |-> f.R, instance |-> Null]
  ELSE resolveEnd(
         resolveOverloads(
           resolveFields(
             IF f.R.declarations[name].constructorPrototype
             THEN [f.R EXCEPT !.classes[instance].constructorInstance = f.instance]
             ELSE f.R,
             name, instance, 1, memoryOffset, depth),
           name, instance, 1, depth),
         name, instanceKey, instance)

(* ClassPrototype.resolve: "Resolve constructor", on the state R in which
   the new instance is stored *)
resolveConstructor(R, name, instanceKey, instance, memoryOffset, depth) ==
  resolveMembers(
    IF R.declarations[name].constructorPrototype
    THEN FunctionPrototype_resolve(R, name, <<>>, depth + 1)
    ELSE [R |-> R, instance |-> Null],
    name, instanceKey, instance, memoryOffset, depth)

(* ClassPrototype.resolve: new Class(...), instances.set, and what is
   inherited from the base class: its members and its size *)
newClass(R, name, typeArguments, baseClass) ==
  LET instance == Len(R.classes) + 1
      instanceKey == typesToString(typeArguments)
      R1 == [R EXCEPT !.classes = Append(@,
               [prototype |-> name,
                internalName |-> instanceName(R.declarations[name].internalName, instanceKey),
                decoratorFlags |-> R.declarations[name].decoratorFlags,
                typeArguments |-> typeArguments,
                overloads |-> <<>>,
                base |-> baseClass,
                type |-> [kind |-> "class", name |-> name, byteSize |-> R.usizeSize,
                          classReference |-> instance, signatureReference |-> Null],
                members |-> IF baseClass # Null THEN R.classes[baseClass].members
                            ELSE EmptyMap,
                constructorInstance |-> Null,
                currentMemoryOffset |-> 0])]
  IN [R1 EXCEPT !.instances[name] = Set(@, instanceKey, instance),
                !.stored = @ \cup {<<"class", name, instanceKey, instance>>}]

(* ClassPrototype.resolve: the test that a class and its base class are
   both unmanaged or both managed, and the test left out *)
unmanagedAgrees(baseClass, this) == FALSE

unmanagedDiffers(baseClass, this) ==
  ("UNMANAGED" \in baseClass.decoratorFlags) # ("UNMANAGED" \in this.decoratorFlags)

(* ClassPrototype.resolve, once the base class is resolved (b) *)
resolveDerived(b, name, typeArguments, depth) ==
  LET declaration == b.R.declarations[name]
      baseClass == b.type.classReference
  IN
  IF b.R.thrown # NoName THEN [R |-> b.R, instance |-> Null]
  ELSE IF declaration.extendsType # NoName /\ b.type = NoType
  THEN [R |-> b.R, instance |-> Null]
  ELSE IF declaration.extendsType # NoName /\ baseClass = Null
  THEN [R |-> [b.R EXCEPT !.diagnostics = @ \cup
                 {<<"A_class_may_only_extend_another_class", name>>}],
        instance |-> Null]
  ELSE IF declaration.extendsType # NoName
          /\ hasDecorator(b.R.classes[baseClass], "SEALED")
  THEN [R |-> [b.R EXCEPT !.diagnostics = @ \cup
                 {<<"Class_0_is_sealed_and_cannot_be_extended", name>>}],
        instance |-> Null]
  ELSE IF declaration.extendsType # NoName
          /\ unmanagedDiffers(b.R.classes[baseClass], declaration)
  THEN [R |-> [b.R EXCEPT !.diagnostics = @ \cup
                 {<<"Unmanaged_classes_cannot_extend_managed_classes_and_vice_versa", name>>}],
        instance |-> Null]
  ELSE IF Len(typeArguments) # Len(declaration.typeParameters)
  THEN [R |-> throw(b.R, "type argument count mismatch"), instance |-> Null]
  ELSE resolveConstructor(
         newClass(b.R, name, typeArguments, baseClass),
         name, typesToString(typeArguments), Len(b.R.classes) + 1,
         IF baseClass # Null THEN b.R.classes[baseClass].currentMemoryOffset ELSE 0,
         depth)

(***************************************************************************)
(* ClassPrototype.resolve(typeArguments).  A Class without a members map   *)
(* is one with an empty map (the code only ever iterates it).              *)
(***************************************************************************)
ClassPrototype_resolve(R, name, typeArguments, depth) ==
  IF depth > MaxDepth
  THEN [R |-> throw(R, "Maximum call stack size exceeded"), instance |-> Null]
  ELSE IF Has(R.instances[name], typesToString(typeArguments))
  THEN [R |-> [R EXCEPT !.returned = @ \cup
                 {<<"class", name, typesToString(typeArguments),
                    R.instances[name][typesToString(typeArguments)]>>}],
        instance |-> R.instances[name][typesToString(typeArguments)]]
  ELSE resolveDerived(
         IF R.declarations[name].extendsType # NoName
         THEN resolveType(R, TypeNode(R.declarations[name].extendsType), depth + 1)
         ELSE [R |-> R, type |-> NoType],
         name, typeArguments, depth)

(***************************************************************************)
(* The class declarations of a program, and the resolver as a state        *)
(* machine: the compiler resolves classes and constructors in any order.   *)
(***************************************************************************)
FieldLists(name) ==
  { l \in UNION { [1..n -> [name : {FieldNames[name][j] : j \in 1..MaxFields},
                            type : TypeNames,
                            kind : {"FIELD_PROTOTYPE"}]] : n \in 0..MaxFields } :
      \A i \in 1..Len(l) : l[i].name = FieldNames[name][i] }

ClassDeclarations(name) ==
  { [name |-> name, internalName |-> <<name>>, flags |-> {},
     extendsType |-> x, typeParameters |-> <<>>,
     decoratorFlags |-> {}, overloadPrototypes |-> <<>>,
     members |-> l, constructorPrototype |-> c] :
      x \in {NoName} \cup (ClassNames \ {name}), l \in FieldLists(name), c \in BOOLEAN }

InitResolver ==
  /\ program = EmptyProgram
  /\ init = InitialPosition
  /\ flow = NoFlow
  /\ \E b \in ClassDeclarations("B"), d \in ClassDeclarations("D"), u \in UsizeSizes :
       /\ resolver = [declarations |-> [n \in ClassNames |-> IF n = "B" THEN b ELSE d],
                      usizeSize |-> u,
                      instances |-> [n \in ClassNames |-> EmptyMap],
                      constructorInstances |-> [n \in ClassNames |-> EmptyMap],
                      prototypes |-> <<>>,
                      typeAliases |-> EmptyMap,
                      signatures |-> <<>>,
                      resolved |-> {},
                      classes |-> <<>>,
                      functions |-> <<>>,
                      diagnostics |-> {},
                      stored |-> {},
                      returned |-> {},
                      thrown |-> NoName,
                      last |-> <<>>]

(* the compiler asks for the instance of a class *)
ResolveClass ==
  /\ resolver.thrown = NoName
  /\ \E name \in ClassNames :
       LET r == ClassPrototype_resolve(resolver, name, <<>>, 0) IN
       resolver' = [r.R EXCEPT !.last = <<"class", name, r.instance>>]
  /\ UNCHANGED <<program, init, flow>>

(* the compiler asks for the instance of a class's constructor *)
ResolveConstructor ==
  /\ resolver.thrown = NoName
  /\ \E name \in ClassNames :
       /\ resolver.declarations[name].constructorPrototype
       /\ LET r == FunctionPrototype_resolve(resolver, name, <<>>, 0) IN
          resolver' = [r.R EXCEPT !.last = <<"function", name, r.instance>>]
  /\ UNCHANGED <<program, init, flow>>

NextResolver ==
  \/ ResolveClass
  \/ ResolveConstructor

SpecResolver == InitResolver /\ [][NextResolver]_vars

(***************************************************************************)
(* Properties of the resolver.                                             *)
(***************************************************************************)
Unthrown == resolver.thrown = NoName

Classes == 1..Len(resolver.classes)

(* the fields a class instance declares itself, as opposed to inherits *)
declares(c, n) ==
  \E i \in 1..Len(resolver.declarations[resolver.classes[c].prototype].members) :
    resolver.declarations[resolver.classes[c].prototype].members[i].name = n

(* the least multiple of size that is >= offset *)
leastMultiple(size, offset) == ((offset + size - 1) \div size) * size

(* the offset at which the i-th declared field of class instance c belongs
   when the fields are laid out in declaration order from offset start *)
RECURSIVE expectedOffset(_, _, _)
expectedOffset(c, i, start) ==
  LET fields == resolver.declarations[resolver.classes[c].prototype].members
      previous == resolver.classes[c].members[fields[i - 1].name]
  IN leastMultiple(resolver.classes[c].members[fields[i].name].type.byteSize,
                   IF i = 1 THEN start
                   ELSE expectedOffset(c, i - 1, start) + previous.type.byteSize)

baseSize(c) ==
  IF resolver.classes[c].base # Null
  THEN resolver.classes[resolver.classes[c].base].currentMemoryOffset ELSE 0

(* C1: an entry of prototype.instances, once set, is never set to another
   instance, and two resolutions of the same prototype with the same key
   return the same instance, re-entrant resolutions included. *)
InstancesSetOnce ==
  Unthrown =>
    /\ \A s1 \in resolver.stored, s2 \in resolver.stored :
         (s1[1] = s2[1] /\ s1[2] = s2[2] /\ s1[3] = s2[3]) => s1[4] = s2[4]
    /\ \A r1 \in resolver.returned, r2 \in resolver.returned :
         (r1[1] = r2[1] /\ r1[2] = r2[2] /\ r1[3] = r2[3]) => r1[4] = r2[4]

(* C8: every member name of the base of a class instance is a member name
   of the instance, mapping to the same element unless the class declares
   a member of that name. *)
InheritedMembers ==
  Unthrown =>
    \A c \in Classes :
      resolver.classes[c].base # Null =>
        \A n \in DOMAIN resolver.classes[resolver.classes[c].base].members :
          /\ n \in DOMAIN resolver.classes[c].members
          /\ \/ declares(c, n)
             \/ resolver.classes[c].members[n]
                  = resolver.classes[resolver.classes[c].base].members[n]

(* C9: every field placed by ClassPrototype.resolve whose type has byte
   size s in {1, 2, 4, 8} has a memoryOffset that is a multiple of s. *)
FieldsAligned ==
  \A c \in Classes :
    \A n \in DOMAIN resolver.classes[c].members :
      LET field == resolver.classes[c].members[n] IN
      field.type.byteSize \in {1, 2, 4, 8} => field.memoryOffset % field.type.byteSize = 0

(* C9 witness: a class instance that starts at the odd size of its base,
   with one field of each of two sizes above 1 of its own. *)
PaddedAfterOddBase ==
  \E c \in Classes :
    /\ baseSize(c) % 2 = 1
    /\ \E n \in DOMAIN resolver.classes[c].members, m \in DOMAIN resolver.classes[c].members :
         /\ declares(c, n) /\ declares(c, m)
         /\ resolver.classes[c].members[n].type.byteSize = 2
         /\ resolver.classes[c].members[m].type.byteSize = 8
         /\ resolver.classes[c].members[n].memoryOffset = baseSize(c) + 1
         /\ resolver.classes[c].members[m].memoryOffset = 8

(* C30: in every class instance that ClassPrototype.resolve has returned,
   whatever the order of the resolutions, two different fields among its
   members, inherited ones included, occupy disjoint ranges of bytes
   [memoryOffset, memoryOffset + byteSize). *)
FieldsDoNotOverlap ==
  Unthrown =>
    \A t \in resolver.returned :
      t[1] = "class" =>
        LET members == resolver.classes[t[4]].members IN
        \A n \in DOMAIN members, m \in DOMAIN members :
          (n # m /\ members[n].kind = "FIELD" /\ members[m].kind = "FIELD") =>
            \/ members[n].memoryOffset + members[n].type.byteSize <= members[m].memoryOffset
            \/ members[m].memoryOffset + members[m].type.byteSize <= members[n].memoryOffset

(* C10: the fields of a class instance lie in declaration order, each at
   the least multiple of its size from the end of the one before (from
   the size of the base for the first), and currentMemoryOffset is the end
   of the last one, which no field of the instance exceeds. *)
DeclarationOrderLayout ==
  Unthrown =>
    \A c \in Classes :
      LET fields == resolver.declarations[resolver.classes[c].prototype].members
          members == resolver.classes[c].members
      IN /\ \A i \in 1..Len(fields) :
              members[fields[i].name].memoryOffset = expectedOffset(c, i, baseSize(c))
         /\ Len(fields) > 0 =>
              resolver.classes[c].currentMemoryOffset =
                members[fields[Len(fields)].name].memoryOffset
                  + members[fields[Len(fields)].name].type.byteSize
         /\ \A n \in DOMAIN members :
              resolver.classes[c].currentMemoryOffset
                >= members[n].memoryOffset + members[n].type.byteSize

(***************************************************************************)
(* Program.initialize over classes with methods that are annotated with    *)
(* @operator: the pass, with one class declaration per statement.          *)
(***************************************************************************)
MaxClasses == 1

(* the operator symbols of the annotations; "?" is no operator *)
OperatorSymbols == {"+", "-", "?"}

OperatorDecorator(value) ==
  [decoratorKind |-> "OPERATOR",
   arguments |-> <<[kind |-> "LITERAL", literalKind |-> "STRING", value |-> value]>>]

OperatorDecoratorLists ==
  {<<>>} \cup { <<OperatorDecorator(a)>> : a \in OperatorSymbols }
         \cup { <<OperatorDecorator(a), OperatorDecorator(b)>> :
                  a \in OperatorSymbols, b \in OperatorSymbols }

(* an instance method of class className *)
MethodDeclaration(source, className, name, decorators) ==
  [Declaration(source, name, {"INSTANCE"}, decorators) EXCEPT
     !.topLevel = FALSE, !.scope = <<className, INSTANCE_DELIMITER>>,
     !.kind = "METHODDECLARATION"]

(* the members of a class: method m, or methods m and n *)
MethodLists(source, className) ==
  { <<MethodDeclaration(source, className, "m", d)>> : d \in OperatorDecoratorLists }
  \cup { <<MethodDeclaration(source, className, "m", d1),
           MethodDeclaration(source, className, "n", d2)>> :
           d1 \in OperatorDecoratorLists, d2 \in OperatorDecoratorLists }

OperatorClassDeclaration ==
  /\ init.pc = "statements"
  /\ init.source # NoSource
  /\ init.statements < MaxClasses
  /\ \E l \in MethodLists(init.source, "x") :
       Statement(initializeClass(program,
         [Declaration(init.source, "x", {}, <<>>) EXCEPT !.members = l]))

NextMethods ==
  \/ NextSource
  \/ OperatorClassDeclaration
  \/ EndOfSources
  \/ FinishInitialize

SpecMethods == InitProgram /\ [][NextMethods]_vars

(***************************************************************************)
(* Properties of the operator overloads of a class prototype.              *)
(***************************************************************************)
ClassPrototypes ==
  { c \in 1..Len(program.elements) : program.elements[c].kind = "CLASS_PROTOTYPE" }

(* the @operator annotations of the methods of class prototype c: <<i, j>>
   is decorator j of member i, in the order checkOperatorOverloads sees
   them *)
Annotations(c) ==
  LET members == program.elements[c].declaration.members IN
  { a \in (1..Len(members)) \X (1..2) :
      /\ a[2] <= Len(members[a[1]].decorators)
      /\ members[a[1]].decorators[a[2]].decoratorKind = "OPERATOR" }

annotatedKind(c, a) ==
  operatorKindFromString(
    program.elements[c].declaration.members[a[1]].decorators[a[2]].arguments[1].value)

earlier(a, b) == a[1] < b[1] \/ (a[1] = b[1] /\ a[2] < b[2])

(* the kind of annotation a is already in overloadPrototypes when a is seen *)
rejected(c, a) ==
  /\ annotatedKind(c, a) # "INVALID"
  /\ \E b \in Annotations(c) : earlier(b, a) /\ annotatedKind(c, b) = annotatedKind(c, a)

accepted(c, a) == annotatedKind(c, a) # "INVALID" /\ ~rejected(c, a)

(* the prototype made for member i of class prototype c *)
methodPrototype(c, i) ==
  CHOOSE e \in 1..Len(program.elements) :
    /\ program.elements[e].classPrototype = c
    /\ program.elements[e].simpleName = program.elements[c].declaration.members[i].name

(* the first method of c annotated with kind k *)
firstMethod(c, k) ==
  methodPrototype(c,
    (CHOOSE a \in Annotations(c) :
       /\ annotatedKind(c, a) = k
       /\ \A b \in Annotations(c) : annotatedKind(c, b) = k => ~earlier(b, a))[1])

(* the kind of the last accepted annotation of member i, INVALID if none *)
lastAccepted(c, i) ==
  LET mine == { a \in Annotations(c) : a[1] = i /\ accepted(c, a) } IN
  IF mine = {} THEN "INVALID"
  ELSE annotatedKind(c, CHOOSE a \in mine : \A b \in mine : ~earlier(a, b))

reported(code) == \E d \in program.diagnostics : d[1] = code

(* what C16 says of every annotation but the operatorKind of a rejected
   method: a rejected one is reported and overloadPrototypes[kind] is still
   the first method's prototype, an unrecognized one is reported and makes
   no entry *)
collisionsReported(c) ==
  \A a \in Annotations(c) :
    /\ rejected(c, a) =>
         /\ reported("Duplicate_function_implementation")
         /\ OverloadsGet(program.elements[c].overloadPrototypes, annotatedKind(c, a))
              = firstMethod(c, annotatedKind(c, a))
    /\ annotatedKind(c, a) = "INVALID" =>
         /\ reported("Operation_not_supported")
         /\ ~OverloadsHas(program.elements[c].overloadPrototypes, "INVALID")

(* C16, as stated: a method annotated with a kind already present in
   overloadPrototypes is reported, overloadPrototypes[kind] still references
   the first method's prototype and the rejected method's operatorKind is
   INVALID; an unrecognized symbol is reported and changes neither. *)
RejectedOperatorStaysInvalid ==
  \A c \in ClassPrototypes :
    /\ collisionsReported(c)
    /\ \A a \in Annotations(c) :
         rejected(c, a) => program.elements[methodPrototype(c, a[1])].operatorKind = "INVALID"

(* C16, amended: a rejected or unrecognized annotation is reported and
   changes neither overloadPrototypes nor the method's operatorKind, which
   is the kind of the method's last accepted annotation, INVALID if it has
   none. *)
RejectedOperatorChangesNothing ==
  \A c \in ClassPrototypes :
    /\ collisionsReported(c)
    /\ \A i \in 1..Len(program.elements[c].declaration.members) :
         program.elements[methodPrototype(c, i)].operatorKind = lastAccepted(c, i)

(* C16 witness: the second method of a class is annotated with an
   unrecognized symbol and with the kind of the first method: both are
   reported, the first method keeps the kind and the second stays INVALID. *)
SecondMethodRejected ==
  \E c \in ClassPrototypes :
    /\ {<<1, 1>>, <<2, 1>>, <<2, 2>>} \subseteq Annotations(c)
    /\ rejected(c, <<2, 2>>)
    /\ annotatedKind(c, <<2, 1>>) = "INVALID"
    /\ annotatedKind(c, <<1, 1>>) = annotatedKind(c, <<2, 2>>)
    /\ OverloadsGet(program.elements[c].overloadPrototypes, annotatedKind(c, <<2, 2>>))
         = methodPrototype(c, 1)
    /\ program.elements[methodPrototype(c, 2)].operatorKind = "INVALID"
    /\ reported("Duplicate_function_implementation")
    /\ reported("Operation_not_supported")

(***************************************************************************)
(* Flow and the temporary locals of the Function that is being compiled: a *)
(* function that is no instance method and has no parameters.  flow holds  *)
(* the Local objects the function has made (locals, referred to by their   *)
(* position), its free-lists by native type (temps), the chain of flows    *)
(* from the function's parent flow to the current one (flows), and the     *)
(* Local the last call returned.                                           *)
(***************************************************************************)
MaxScopes == 2
MaxLocals == 3

LocalNames == {"a", "b"}
LocalTypes == {"i32", "u8", "i64"}
NativeTypes == {"I32", "I64", "F32", "F64"}

(* Type.toNativeType *)
toNativeType(type) ==
  CASE type \in {"i8", "i16", "i32", "u8", "u16", "u32", "bool"} -> "I32"
    [] type \in {"i64", "u64"} -> "I64"
    [] type = "f32" -> "F32"
    [] type = "f64" -> "F64"
    [] OTHER -> "None"

(* Function.addLocal(type) without a name *)
addLocal(F, type) ==
  [F |-> [F EXCEPT !.locals = Append(@, [index |-> Len(F.locals), type |-> type,
                                         classReference |-> Null])],
   local |-> Len(F.locals) + 1]

(* Function.getTempLocal *)
getTempLocal(F, type) ==
  IF toNativeType(type) \notin NativeTypes
  THEN [F |-> [F EXCEPT !.thrown = "concrete type expected"], local |-> Null]
  ELSE LET temps == F.temps[toNativeType(type)] IN
       IF Len(temps) > 0
       THEN [F |-> [F EXCEPT !.temps[toNativeType(type)] = SubSeq(temps, 1, Len(temps) - 1),
                             !.locals[temps[Len(temps)]].type = type],
             local |-> temps[Len(temps)]]
       ELSE addLocal(F, type)

(* Function.freeTempLocal (no local of this universe is INLINED) *)
freeTempLocal(F, local) ==
  IF toNativeType(F.locals[local].type) \notin NativeTypes
  THEN [F EXCEPT !.thrown = "concrete type expected"]
  ELSE [F EXCEPT !.temps[toNativeType(F.locals[local].type)] = Append(@, local)]

(* id.toString(10): the decimal digits of an i32, as the sequence of the
   characters *)
Digits == <<"0", "1", "2", "3", "4", "5", "6", "7", "8", "9">>

RECURSIVE toString10(_)
toString10(id) ==
  IF id < 0 THEN <<"-">> \o toString10(0 - id)
  ELSE IF id < 10 THEN <<Digits[id + 1]>>
  ELSE toString10(id \div 10) \o <<Digits[(id % 10) + 1]>>

(* this.nextBreakId++ on an i32 *)
increment32(id) == IF id = 2147483647 THEN (0 - 2147483647) - 1 ELSE id + 1

(* Function.enterBreakContext: the label returned is F.breakContext.  A
   breakStack that is null is one that is empty. *)
enterBreakContext(F) ==
  [F EXCEPT !.nextBreakId = increment32(F.nextBreakId),
            !.breakStack = Append(@, F.nextBreakId),
            !.breakContext = toString10(F.nextBreakId)]

(* Function.leaveBreakContext that forgets the enclosing context *)
leaveEveryBreakContext(F) ==
  IF Len(F.breakStack) = 0 THEN [F EXCEPT !.thrown = "assertion failed"]
  ELSE [F EXCEPT !.breakStack = <<>>, !.breakContext = <<>>]

(* Function.leaveBreakContext *)
leaveBreakContext(F) ==
  IF Len(F.breakStack) = 0 THEN [F EXCEPT !.thrown = "assertion failed"]
  ELSE IF Len(F.breakStack) > 1
  THEN [F EXCEPT !.breakStack = SubSeq(@, 1, Len(@) - 1),
                 !.breakContext = toString10(F.breakStack[Len(F.breakStack) - 1])]
  ELSE [F EXCEPT !.breakStack = <<>>, !.breakContext = <<>>]

(* Function.finalize (no source map) *)
finalize(F) ==
  IF Len(F.breakStack) # 0 THEN [F EXCEPT !.thrown = "assertion failed"]
  ELSE [F EXCEPT !.breakStack = <<>>, !.breakContext = <<>>,
                 !.temps = [t \in NativeTypes |-> <<>>]]

(* Flow.addScopedLocal on the current flow, once the temporary local is
   there (t) *)
bindScopedLocal(t, name, declaration) ==
  LET current == Len(t.F.flows)
      existingLocal == ScopedGet(t.F.flows[current].scopedLocals, name)
  IN
  IF t.F.thrown # NoName THEN t.F
  ELSE IF existingLocal # Null
  THEN IF declaration
       THEN [t.F EXCEPT !.diagnostics = @ \cup {<<"Duplicate_identifier_0", name>>},
                        !.last = existingLocal]
       ELSE [t.F EXCEPT !.thrown = "assertion failed"]
  ELSE [t.F EXCEPT !.flows[current].scopedLocals = Append(@, [name |-> name, local |-> t.local]),
                   !.last = t.local]

addScopedLocal(F, type, name, declaration) ==
  bindScopedLocal(getTempLocal(F, type), name, declaration)

(* Flow.leaveBranchOrScope: "Free block-scoped locals" *)
RECURSIVE freeScopedLocalsFrom(_, _, _)
freeScopedLocalsFrom(F, scopedLocals, i) ==
  IF i > Len(scopedLocals) THEN F
  ELSE freeScopedLocalsFrom(freeTempLocal(F, scopedLocals[i].local), scopedLocals, i + 1)

(* FlowFlags: the flags that say what a branch always does *)
UnconditionalFlags == {"RETURNS", "THROWS", "BREAKS", "CONTINUES", "ALLOCATES"}

(* CONDITIONALLY_X of the unconditional flag X *)
Conditionally ==
  [x \in UnconditionalFlags |->
     CASE x = "RETURNS" -> "CONDITIONALLY_RETURNS"
       [] x = "THROWS" -> "CONDITIONALLY_THROWS"
       [] x = "BREAKS" -> "CONDITIONALLY_BREAKS"
       [] x = "CONTINUES" -> "CONDITIONALLY_CONTINUES"
       [] x = "ALLOCATES" -> "CONDITIONALLY_ALLOCATES"]

(* Flow.leaveBranchOrScope propagating whatever the labels *)
propagatedWhateverLabel(branch, parent) ==
  { Conditionally[x] : x \in branch.flags \cap UnconditionalFlags }

(* Flow.leaveBranchOrScope: "Propagate flags to parent" *)
propagatedFlags(branch, parent) ==
  (IF "RETURNS" \in branch.flags THEN {"CONDITIONALLY_RETURNS"} ELSE {})
  \cup (IF "THROWS" \in branch.flags THEN {"CONDITIONALLY_THROWS"} ELSE {})
  \cup (IF "BREAKS" \in branch.flags /\ parent.breakLabel = branch.breakLabel
        THEN {"CONDITIONALLY_BREAKS"} ELSE {})
  \cup (IF "CONTINUES" \in branch.flags /\ parent.continueLabel = branch.continueLabel
        THEN {"CONDITIONALLY_CONTINUES"} ELSE {})
  \cup (IF "ALLOCATES" \in branch.flags THEN {"CONDITIONALLY_ALLOCATES"} ELSE {})

leaveBranchOrScope(F) ==
  LET current == Len(F.flows)
      branch == F.flows[current]
      F1 == freeScopedLocalsFrom(F, branch.scopedLocals, 1)
  IN [F1 EXCEPT !.flows = [SubSeq(F1.flows, 1, current - 1) EXCEPT
                             ![current - 1].flags =
                                @ \cup propagatedFlags(branch, F1.flows[current - 1])]]

(* Flow.enterBranchOrScope *)
enterBranchOrScope(F) ==
  LET this == F.flows[Len(F.flows)] IN
  [F EXCEPT !.flows = Append(@, [scopedLocals |-> <<>>,
                                 flags |-> this.flags,
                                 continueLabel |-> this.continueLabel,
                                 breakLabel |-> this.breakLabel])]

(* new Function(prototype, internalName, signature, memberOf) for a
   signature without parameters: the local "this" of an instance method
   (memberOf is then the class instance), Flow.create, no break
   context and the empty free-lists.  A label is the sequence of its
   characters, null the empty sequence. *)
newFunction(prototype, memberOf) ==
  [prototype |-> prototype,
   memberOf |-> memberOf,
   locals |-> IF memberOf.kind = "CLASS"
              THEN <<[index |-> 0, type |-> "usize", classReference |-> memberOf.ref]>>
              ELSE <<>>,
   named |-> IF memberOf.kind = "CLASS" THEN [n \in {"this"} |-> 1] ELSE EmptyMap,
   temps |-> [t \in NativeTypes |-> <<>>],
   flows |-> <<[scopedLocals |-> <<>>, flags |-> {},
                continueLabel |-> <<>>, breakLabel |-> <<>>]>>,
   breakContext |-> <<>>,
   nextBreakId |-> 0,
   breakStack |-> <<>>,
   diagnostics |-> {},
   thrown |-> NoName,
   last |-> Null]

(* the function that is being compiled *)
InitFlow ==
  /\ program = EmptyProgram
  /\ init = InitialPosition
  /\ resolver = NoResolver
  /\ flow = newFunction(Null, NoElement)

EnterBranchOrScope ==
  /\ flow.thrown = NoName
  /\ Len(flow.flows) <= MaxScopes
  /\ flow' = enterBranchOrScope(flow)
  /\ UNCHANGED <<program, init, resolver>>

(* the compiler declares a block-scoped variable (with its declaration) or
   binds a name of its own (without) *)
AddScopedLocal ==
  /\ flow.thrown = NoName
  /\ \E type \in LocalTypes, name \in LocalNames, declaration \in BOOLEAN :
       /\ Len(flow.locals) < MaxLocals \/ Len(flow.temps[toNativeType(type)]) > 0
       /\ flow' = addScopedLocal(flow, type, name, declaration)
  /\ UNCHANGED <<program, init, resolver>>

(* Flow.set(RETURNS) on the current flow *)
SetFlowFlag ==
  /\ flow.thrown = NoName
  /\ "RETURNS" \notin flow.flows[Len(flow.flows)].flags
  /\ flow' = [flow EXCEPT !.flows[Len(flow.flows)].flags = @ \cup {"RETURNS"}]
  /\ UNCHANGED <<program, init, resolver>>

LeaveBranchOrScope ==
  /\ flow.thrown = NoName
  /\ Len(flow.flows) > 1
  /\ flow' = leaveBranchOrScope(flow)
  /\ UNCHANGED <<program, init, resolver>>

NextFlow ==
  \/ EnterBranchOrScope
  \/ AddScopedLocal
  \/ SetFlowFlag
  \/ LeaveBranchOrScope

SpecFlow == InitFlow /\ [][NextFlow]_vars

(* the locals bound in a scope of the chain of flows *)
ScopedLocals ==
  UNION { { flow.flows[f].scopedLocals[n].local : n \in 1..Len(flow.flows[f].scopedLocals) } :
          f \in 1..Len(flow.flows) }

(* the locals in the free-list of native type t *)
FreeLocals(t) == { flow.temps[t][n] : n \in 1..Len(flow.temps[t]) }

(* C19: every temporary local the function has made through addScopedLocal
   is bound in a scope that has not been left or lies in the free-list of
   its native type; so, when the scopes entered have all been left, every
   one of them is in the free-lists again. *)
ScopedLocalsAreReleased ==
  flow.thrown = NoName =>
    \A l \in 1..Len(flow.locals) :
      l \in ScopedLocals \/ l \in FreeLocals(toNativeType(flow.locals[l].type))

(***************************************************************************)
(* The flags of the flows of a function: the compiler enters and leaves    *)
(* branches, sets flags on the current flow and gives it the labels of a   *)
(* loop or of a switch.                                                    *)
(***************************************************************************)
SettableFlags == UnconditionalFlags \cup {"INLINE_CONTEXT"}

MaxFlags == 2

Labels == { toString10(0) }

(* Flow.set(flag) on the current flow *)
SetAFlag ==
  /\ flow.thrown = NoName
  /\ \E flag \in SettableFlags :
       /\ flag \notin flow.flows[Len(flow.flows)].flags
       /\ Cardinality(flow.flows[Len(flow.flows)].flags \cap SettableFlags) < MaxFlags
       /\ flow' = [flow EXCEPT !.flows[Len(flow.flows)].flags = @ \cup {flag}]
  /\ UNCHANGED <<program, init, resolver>>

(* the compiler assigns breakLabel, and continueLabel for a loop, of the
   branch it has entered *)
SetLabels ==
  /\ flow.thrown = NoName
  /\ Len(flow.flows) > 1
  /\ \E label \in Labels, loop \in BOOLEAN :
       /\ flow.flows[Len(flow.flows)].breakLabel # label
       /\ flow' = [flow EXCEPT !.flows[Len(flow.flows)].breakLabel = label,
                               !.flows[Len(flow.flows)].continueLabel =
                                  IF loop THEN label ELSE @]
  /\ UNCHANGED <<program, init, resolver>>

NextFlags ==
  \/ EnterBranchOrScope
  \/ SetAFlag
  \/ SetLabels
  \/ LeaveBranchOrScope

SpecFlags == InitFlow /\ [][NextFlags]_vars

(* the unconditional flags of the child that count for the parent *)
Counting(child, parent) ==
  { x \in child.flags \cap UnconditionalFlags :
      /\ x = "BREAKS" => child.breakLabel = parent.breakLabel
      /\ x = "CONTINUES" => child.continueLabel = parent.continueLabel }

(* C22: a step of leaveBranchOrScope adds to the flags of the parent
   CONDITIONALLY_X for each of RETURNS, THROWS and ALLOCATES set in the
   child, and for BREAKS and CONTINUES set in the child when the label of
   the child equals that of the parent, and changes no other flag of the
   parent: its unconditional flags and INLINE_CONTEXT stay as they were. *)
LeavePropagatesConditionally ==
  [][LeaveBranchOrScope =>
       LET n == Len(flow.flows)
           child == flow.flows[n]
           parent == flow.flows[n - 1]
           after == flow'.flows[n - 1]
       IN /\ Len(flow'.flows) = n - 1
          /\ after.flags \ parent.flags =
               { Conditionally[x] : x \in Counting(child, parent) } \ parent.flags
          /\ parent.flags \subseteq after.flags
          /\ after.flags \cap SettableFlags = parent.flags \cap SettableFlags]_vars

(* the function's only flow holds what two branches left behind: the one
   returned, the other broke out of the function's own break label, and
   the flag INLINE_CONTEXT set before is still there *)
ParentHoldsConditionalFlags ==
  /\ Len(flow.flows) = 1
  /\ flow.flows[1].flags = {"INLINE_CONTEXT", "CONDITIONALLY_RETURNS", "CONDITIONALLY_BREAKS"}

(***************************************************************************)
(* The break contexts of a function: the compiler enters one for a loop or *)
(* a switch, leaves it at its end and finalizes the function when its body *)
(* is compiled.  resolver keeps what its calls returned: every label       *)
(* enterBreakContext has returned, and the labels of the contexts that are *)
(* open, innermost last.                                                   *)
(***************************************************************************)
MaxBreakIds == 12

InitBreaks ==
  /\ program = EmptyProgram
  /\ init = InitialPosition
  /\ resolver = [labels |-> <<>>, open |-> <<>>, thrown |-> NoName]
  /\ flow = newFunction(Null, NoElement)

EnterBreakContext ==
  /\ flow.thrown = NoName
  /\ flow.nextBreakId < MaxBreakIds
  /\ flow' = enterBreakContext(flow)
  /\ resolver' = [resolver EXCEPT !.labels = Append(@, flow'.breakContext),
                                  !.open = Append(@, flow'.breakContext)]
  /\ UNCHANGED <<program, init>>

LeaveBreakContext ==
  /\ flow.thrown = NoName
  /\ flow' = leaveBreakContext(flow)
  /\ resolver' = IF Len(resolver.open) = 0 THEN resolver
                 ELSE [resolver EXCEPT !.open = SubSeq(@, 1, Len(@) - 1)]
  /\ UNCHANGED <<program, init>>

Finalize ==
  /\ flow.thrown = NoName
  /\ flow' = finalize(flow)
  /\ UNCHANGED <<program, init, resolver>>

NextBreaks ==
  \/ EnterBreakContext
  \/ LeaveBreakContext
  \/ Finalize

SpecBreaks == InitBreaks /\ [][NextBreaks]_vars

(* the number a string of decimal digits stands for *)
digitValue(c) == CHOOSE d \in 0..9 : Digits[d + 1] = c

RECURSIVE decimalValue(_)
decimalValue(label) ==
  IF Len(label) = 1 THEN digitValue(label[1])
  ELSE 10 * decimalValue(SubSeq(label, 1, Len(label) - 1)) + digitValue(label[Len(label)])

IsDecimalOf(label, id) ==
  /\ Len(label) > 0
  /\ \A i \in 1..Len(label) : \E d \in 0..9 : Digits[d + 1] = label[i]
  /\ Len(label) > 1 => label[1] # "0"
  /\ decimalValue(label) = id

(* C26: as long as no leaveBreakContext has been called without an open
   context, breakContext is null when no context is open and otherwise the
   decimal string of the id of the innermost open context, which is the
   label that the enterBreakContext opening that context returned; and no
   two calls of enterBreakContext on the function have returned the same
   label. *)
BreakContextIsInnermost ==
  flow.thrown = NoName =>
    /\ Len(flow.breakStack) = Len(resolver.open)
    /\ IF Len(resolver.open) = 0 THEN flow.breakContext = <<>>
       ELSE /\ flow.breakContext = resolver.open[Len(resolver.open)]
            /\ IsDecimalOf(flow.breakContext, flow.breakStack[Len(flow.breakStack)])
    /\ \A i, j \in 1..Len(resolver.labels) :
         i # j => resolver.labels[i] # resolver.labels[j]

(* the context 11 has been left and the context 10 that encloses it is the
   current one again *)
BreakContextRestored ==
  /\ flow.thrown = NoName
  /\ flow.nextBreakId = 12
  /\ flow.breakStack = <<10>>
  /\ flow.breakContext = <<"1", "0">>

(***************************************************************************)
(* Program.initialize over sources that declare the names initialize looks *)
(* up at its end: Array, ArrayBufferView and String, as classes,           *)
(* interfaces or functions, with or without type parameters, published     *)
(* under their simple names by @global.                                    *)
(***************************************************************************)
WellKnownNames == {"Array", "ArrayBufferView", "String"}

TypeParameterLists == { <<>>, <<"T">> }

WellKnownDeclarations(source) ==
  { [Declaration(source, n, {}, d) EXCEPT !.typeParameters = t] :
      n \in WellKnownNames, d \in { <<>>, <<Decorator("GLOBAL")>> }, t \in TypeParameterLists }

WellKnownClassDeclaration ==
  /\ InStatements
  /\ \E d \in WellKnownDeclarations(init.source) : Statement(initializeClass(program, d))

WellKnownInterfaceDeclaration ==
  /\ InStatements
  /\ \E d \in WellKnownDeclarations(init.source) : Statement(initializeInterface(program, d))

WellKnownFunctionDeclaration ==
  /\ InStatements
  /\ \E d \in WellKnownDeclarations(init.source) :
       Statement(initializeFunction(program, d, Null))

NextWellKnown ==
  \/ NextSource
  \/ WellKnownClassDeclaration
  \/ WellKnownInterfaceDeclaration
  \/ WellKnownFunctionDeclaration
  \/ EndOfSources
  \/ FinishInitialize

SpecWellKnown == InitProgram /\ [][NextWellKnown]_vars

(* C20: initialize never raises an exception or fails an assertion, whatever
   kind of element the sources bind to Array, ArrayBufferView or String and
   whether or not String has type parameters. *)
InitializeNeverThrows == init.thrown = NoName

(***************************************************************************)
(* Class.lookupOverload, and a lookup that stops at the class itself.      *)
(***************************************************************************)
lookupOwnOverload(R, instance, kind) == OverloadsGet(R.classes[instance].overloads, kind)

RECURSIVE lookupOverload(_, _, _)
lookupOverload(R, instance, kind) ==
  IF OverloadsHas(R.classes[instance].overloads, kind)
  THEN OverloadsGet(R.classes[instance].overloads, kind)
  ELSE IF R.classes[instance].base # Null
  THEN lookupOverload(R, R.classes[instance].base, kind)
  ELSE Null

(***************************************************************************)
(* Program.initialize over the classes B and D of the entry source,        *)
(* followed by the resolver at work on the class prototypes it has made.   *)
(* B may be sealed or unmanaged, generic, and implement an interface; D    *)
(* may be unmanaged and extend B; either may have a method m that          *)
(* overloads an operator.                                                  *)
(***************************************************************************)
MaxSignatures == 2
MaxDeclarations == 2

OperatorMethodLists(source, className) ==
  {<<>>} \cup
  { <<[MethodDeclaration(source, className, "m", <<OperatorDecorator(o)>>)
         EXCEPT !.signature.returnType = "i32"]>> : o \in {"+", "-"} }

BaseClassDeclarations(source) ==
  { [Declaration(source, "B", IF t = <<>> THEN {} ELSE {"GENERIC"}, d) EXCEPT
       !.typeParameters = t, !.members = l] :
      d \in { <<>>, <<Decorator("SEALED")>>, <<Decorator("UNMANAGED")>> },
      t \in TypeParameterLists, l \in OperatorMethodLists(source, "B") }
  \cup
  { [Declaration(source, "B", {}, d) EXCEPT !.implementsTypes = 1] :
      d \in { <<>>, <<Decorator("SEALED")>>, <<Decorator("UNMANAGED")>> } }

DerivedClassDeclarations(source) ==
  { [Declaration(source, "D", {}, d) EXCEPT !.extendsType = x, !.members = l] :
      d \in { <<>>, <<Decorator("UNMANAGED")>> },
      x \in {NoName, "B"}, l \in OperatorMethodLists(source, "D") }

BaseOrDerivedClassDeclaration ==
  /\ InStatements
  /\ init.statements < MaxDeclarations
  /\ init.source.isEntry
  /\ \E d \in BaseClassDeclarations(init.source) \cup DerivedClassDeclarations(init.source) :
       Statement(initializeClass(program, d))

(* the class prototype a type node of the entry source that names n refers
   to, if any: elementsLookup.get(localName) *)
LocalClassPrototype(P, n) ==
  IF Has(P.elementsLookup, SourcePool[1].internalPath \o <<n>>)
     /\ P.elements[P.elementsLookup[SourcePool[1].internalPath \o <<n>>]].kind
          = "CLASS_PROTOTYPE"
  THEN P.elementsLookup[SourcePool[1].internalPath \o <<n>>]
  ELSE Null

(* a member of ClassPrototype.instanceMembers as the resolver reads it *)
InstanceMember(P, member) ==
  [name |-> P.elements[member].simpleName,
   type |-> P.elements[member].declaration.type,
   kind |-> P.elements[member].kind,
   prototype |-> member]

(* the resolver over the prototypes of an initialized program (32-bit
   pointers): nothing is resolved yet *)
ResolverOf(P) ==
  [declarations |->
     [n \in { c \in ClassNames : LocalClassPrototype(P, c) # Null } |->
        LET prototype == P.elements[LocalClassPrototype(P, n)] IN
        [name |-> n,
         internalName |-> prototype.internalName,
         flags |-> prototype.flags,
         extendsType |-> prototype.declaration.extendsType,
         typeParameters |-> prototype.declaration.typeParameters,
         decoratorFlags |-> prototype.decoratorFlags,
         overloadPrototypes |-> prototype.overloadPrototypes,
         members |-> [i \in 1..Len(prototype.instanceMembers) |->
                        InstanceMember(P, prototype.instanceMembers[i])],
         constructorPrototype |-> prototype.constructorPrototype # Null]],
   usizeSize |-> 4,
   instances |-> [n \in ClassNames |-> EmptyMap],
   constructorInstances |-> [n \in ClassNames |-> EmptyMap],
   prototypes |->
     [e \in 1..Len(P.elements) |->
        [kind |-> P.elements[e].kind,
         simpleName |-> P.elements[e].simpleName,
         internalName |-> P.elements[e].internalName,
         flags |-> P.elements[e].flags,
         classPrototype |->
           IF P.elements[e].classPrototype # Null
           THEN P.elements[P.elements[e].classPrototype].simpleName ELSE NoName,
         classTypeArguments |-> <<>>,
         operatorKind |-> P.elements[e].operatorKind,
         returnType |-> P.elements[e].declaration.signature.returnType,
         instances |-> EmptyMap]],
   typeAliases |-> P.typeAliases,
   signatures |-> <<>>,
   resolved |-> {},
   classes |-> <<>>,
   functions |-> <<>>,
   diagnostics |-> {},
   stored |-> {},
   returned |-> {},
   thrown |-> NoName,
   last |-> <<>>]

(* the resolver as it is when the next call is made *)
Resolving == IF resolver = NoResolver THEN ResolverOf(program) ELSE resolver

(* the type nodes the compiler comes across in the entry source *)
TypeNodes ==
  { TypeNode("i32"), TypeNode("B"), TypeNode("D"),
    GenericTypeNode("B", <<TypeNode("i32")>>),
    SignatureNode("i32") }

OperatorKinds == {"ADD", "SUB"}

Initialized == init.pc = "done" /\ Resolving.thrown = NoName

(* the compiler resolves a type node; resolver.resolved remembers the type
   each node has been resolved to *)
ResolveType ==
  /\ Initialized
  /\ \E node \in TypeNodes :
       /\ node.kind = "SIGNATURE" => Len(Resolving.signatures) < MaxSignatures
       /\ LET r == resolveType(Resolving, node, 0) IN
          resolver' = [r.R EXCEPT !.resolved = IF r.R.thrown = NoName
                                               THEN @ \cup {<<node, r.type>>} ELSE @]
  /\ UNCHANGED <<program, init, flow>>

(* the compiler resolves a method found in the members of a class *)
ResolveMethod ==
  /\ Initialized
  /\ \E c \in 1..Len(Resolving.classes) :
       \E n \in DOMAIN Resolving.classes[c].members :
         /\ Resolving.classes[c].members[n].kind = "FUNCTION_PROTOTYPE"
         /\ LET r == MethodPrototype_resolve(Resolving,
                                             Resolving.classes[c].members[n].prototype, 0)
            IN resolver' = r.R
  /\ UNCHANGED <<program, init, flow>>

(* the compiler looks an operator overload up; resolver.last is the call
   and its result *)
LookupOverload ==
  /\ Initialized
  /\ \E c \in 1..Len(Resolving.classes), kind \in OperatorKinds :
       resolver' = [Resolving EXCEPT
                      !.last = <<"overload", c, kind, lookupOverload(Resolving, c, kind)>>]
  /\ UNCHANGED <<program, init, flow>>

NextClasses ==
  \/ NextSource
  \/ BaseOrDerivedClassDeclaration
  \/ EndOfSources
  \/ FinishInitialize
  \/ ResolveType
  \/ ResolveMethod
  \/ LookupOverload

SpecClasses == InitProgram /\ [][NextClasses]_vars

(***************************************************************************)
(* Properties of the class instances and their operator overloads.         *)
(***************************************************************************)
ClassInstances == 1..Len(Resolving.classes)

(* the declaration of the class the declaration of n names as its base, if
   it is the declaration of a class that is not generic *)
HasDeclaredBase(n) ==
  /\ Resolving.declarations[n].extendsType \in DOMAIN Resolving.declarations
  /\ "GENERIC" \notin Resolving.declarations[Resolving.declarations[n].extendsType].flags

DeclaredBase(n) == Resolving.declarations[Resolving.declarations[n].extendsType]

(* the type nodes naming class n that have been resolved, with the results *)
ResolvedAs(n) ==
  { r \in Resolving.resolved : r[1].kind = "TYPE" /\ r[1].name = n }

emitted(code) == \E d \in Resolving.diagnostics : d[1] = code

(* C14: no class instance has a base class that is sealed, and resolving a
   class whose declared base is sealed yields no instance, stores nothing
   in the instances of its prototype and emits "Class is sealed and cannot
   be extended". *)
SealedNeverExtended ==
  Resolving.thrown = NoName =>
    /\ \A c \in ClassInstances :
         Resolving.classes[c].base # Null =>
           "SEALED" \notin Resolving.classes[Resolving.classes[c].base].decoratorFlags
    /\ \A n \in DOMAIN Resolving.declarations :
         (HasDeclaredBase(n) /\ "SEALED" \in DeclaredBase(n).decoratorFlags) =>
           /\ Resolving.instances[n] = EmptyMap
           /\ \A r \in ResolvedAs(n) :
                /\ r[2] = NoType
                /\ emitted("Class_0_is_sealed_and_cannot_be_extended")

(* C14 witness: D, declared to extend the sealed class B, has been resolved
   after B. *)
SealedBaseRefused ==
  /\ Resolving.thrown = NoName
  /\ "D" \in DOMAIN Resolving.declarations
  /\ HasDeclaredBase("D")
  /\ "SEALED" \in DeclaredBase("D").decoratorFlags
  /\ ResolvedAs("D") # {}
  /\ \E c \in ClassInstances : Resolving.classes[c].prototype = "B"
  /\ emitted("Class_0_is_sealed_and_cannot_be_extended")

(* the class prototypes that are unmanaged and declare implements types *)
UnmanagedImplementers ==
  { e \in ClassPrototypes :
      /\ "UNMANAGED" \in program.elements[e].decoratorFlags
      /\ program.elements[e].declaration.implementsTypes > 0 }

(* C15: a class instance and its base are both unmanaged or both managed;
   resolving a class that differs from its declared base in this yields no
   instance and emits "Unmanaged classes cannot extend managed classes and
   vice-versa"; an unmanaged class prototype that declares implements types
   is reported and not queued in queuedImplements. *)
UnmanagedPurity ==
  /\ \A e \in UnmanagedImplementers :
       /\ \A q \in 1..Len(program.queuedImplements) : program.queuedImplements[q] # e
       /\ reported("Unmanaged_classes_cannot_implement_interfaces")
  /\ Resolving.thrown = NoName =>
       /\ \A c \in ClassInstances :
            Resolving.classes[c].base # Null =>
              ("UNMANAGED" \in Resolving.classes[c].decoratorFlags)
                = ("UNMANAGED" \in Resolving.classes[Resolving.classes[c].base].decoratorFlags)
       /\ \A n \in DOMAIN Resolving.declarations :
            (/\ HasDeclaredBase(n)
             /\ ("UNMANAGED" \in DeclaredBase(n).decoratorFlags)
                  # ("UNMANAGED" \in Resolving.declarations[n].decoratorFlags)) =>
              /\ Resolving.instances[n] = EmptyMap
              /\ \A r \in ResolvedAs(n) :
                   /\ r[2] = NoType
                   /\ "SEALED" \notin DeclaredBase(n).decoratorFlags =>
                        emitted("Unmanaged_classes_cannot_extend_managed_classes_and_vice_versa")

(* C15 witness: B is unmanaged and declares an implements type; the managed
   class D, declared to extend B, has been resolved after B. *)
ManagedExtendsUnmanaged ==
  /\ Resolving.thrown = NoName
  /\ UnmanagedImplementers # {}
  /\ "D" \in DOMAIN Resolving.declarations
  /\ HasDeclaredBase("D")
  /\ "UNMANAGED" \in DeclaredBase("D").decoratorFlags
  /\ "UNMANAGED" \notin Resolving.declarations["D"].decoratorFlags
  /\ ResolvedAs("D") # {}
  /\ \E c \in ClassInstances : Resolving.classes[c].prototype = "B"
  /\ emitted("Unmanaged_classes_cannot_extend_managed_classes_and_vice_versa")

(* the class d steps up the base chain of class instance c (c itself for
   d = 0), or Null when the chain is shorter *)
RECURSIVE ancestor(_, _)
ancestor(c, d) ==
  IF d = 0 \/ c = Null THEN c ELSE ancestor(Resolving.classes[c].base, d - 1)

ChainDepths == 0..Len(Resolving.classes)

(* the class d steps up the chain of c has an overload of kind k *)
definesAt(c, d, k) ==
  /\ ancestor(c, d) # Null
  /\ \E n \in 1..Len(Resolving.classes[ancestor(c, d)].overloads) :
       Resolving.classes[ancestor(c, d)].overloads[n].kind = k

(* C17: lookupOverload(k) on class C returns the overload of kind k of the
   nearest class on the base chain from C on that has one, and null exactly
   when no class on the chain has one. *)
NearestOverload ==
  (Resolving.last # <<>> /\ Resolving.last[1] = "overload") =>
    LET c == Resolving.last[2]
        k == Resolving.last[3]
        result == Resolving.last[4]
    IN /\ (result = Null) = (\A d \in ChainDepths : ~definesAt(c, d, k))
       /\ \A d \in ChainDepths :
            (definesAt(c, d, k) /\ \A e \in 0..(d - 1) : ~definesAt(c, e, k)) =>
              \E n \in 1..Len(Resolving.classes[ancestor(c, d)].overloads) :
                /\ Resolving.classes[ancestor(c, d)].overloads[n].kind = k
                /\ Resolving.classes[ancestor(c, d)].overloads[n].prototype = result

(* C17 witness: an overload that the class looked at lacks and its base has
   has been looked up. *)
OverloadFoundInBase ==
  /\ Resolving.last # <<>>
  /\ Resolving.last[1] = "overload"
  /\ Resolving.last[4] # Null
  /\ ~definesAt(Resolving.last[2], 0, Resolving.last[3])
  /\ definesAt(Resolving.last[2], 1, Resolving.last[3])

(* the prototype stored in the members of class instance c for the method
   whose instance is Function f *)
memberPrototypeOf(c, f) ==
  Resolving.classes[c].members[
    Resolving.prototypes[Resolving.functions[f].prototype].simpleName].prototype

(* C11: every overload of a class instance is the Function that resolving
   the prototype stored for that method in the members of the instance
   yields, and no two Functions have the same internal name. *)
OneFunctionPerMethod ==
  Resolving.thrown = NoName =>
    /\ \A c \in ClassInstances :
         \A n \in 1..Len(Resolving.classes[c].overloads) :
           MethodPrototype_resolve(
             Resolving,
             memberPrototypeOf(c, Resolving.classes[c].overloads[n].prototype),
             0).instance = Resolving.classes[c].overloads[n].prototype
    /\ \A f \in 1..Len(Resolving.functions), g \in 1..Len(Resolving.functions) :
         Resolving.functions[f].internalName = Resolving.functions[g].internalName => f = g

(* C18: two calls of resolveType with the same type node return the same
   type: the same class instance's type, the same function type with the
   same signature, an equal basic type. *)
ResolveTypeIdempotent ==
  \A r1 \in Resolving.resolved, r2 \in Resolving.resolved :
    r1[1] = r2[1] => r1[2] = r2[2]

(***************************************************************************)
(* Program.initialize as one call over the statements of a program text,   *)
(* each statement with the kind initialize switches on and the declaration *)
(* it passes on.  No statement of these texts imports or exports by name,  *)
(* so the two drains have nothing to do.                                   *)
(***************************************************************************)
initializeStatement(P, statement) ==
  CASE statement.kind = "CLASSDECLARATION" -> initializeClass(P, statement.declaration)
    [] statement.kind = "ENUMDECLARATION" -> initializeEnum(P, statement.declaration)
    [] statement.kind = "FUNCTIONDECLARATION" ->
         initializeFunction(P, statement.declaration, Null)
    [] statement.kind = "NAMESPACEDECLARATION" ->
         initializeNamespace(P, statement.declaration)
    [] statement.kind = "TYPEDECLARATION" -> initializeTypeAlias(P, statement.declaration)
    [] statement.kind = "VARIABLE" ->
         initializeVariables(P, [declarations |-> <<statement.declaration>>])
    [] OTHER -> P

RECURSIVE initializeStatementsFrom(_, _, _)
initializeStatementsFrom(P, statements, j) ==
  IF j > Len(statements) THEN P
  ELSE initializeStatementsFrom(initializeStatement(P, statements[j]), statements, j + 1)

initialize(P, statements) ==
  registerString(registerArrayBufferView(registerArray(
    setGlobalAliasesFrom(resolveExtendsFrom(initializeStatementsFrom(P, statements, 1), 1),
                         1))))

(* Program.initialize, from its entry to its return or its exception *)
Initialize(texts) ==
  /\ init = InitialPosition
  /\ \E statements \in texts :
       /\ program' = initialize(program, statements).P
       /\ init' = [init EXCEPT
                     !.pc = IF initialize(program, statements).thrown = NoName
                            THEN "done" ELSE "thrown",
                     !.thrown = initialize(program, statements).thrown]
  /\ UNCHANGED <<resolver, flow>>

(***************************************************************************)
(* The program texts the expressions below are resolved in.  The library   *)
(* source ~lib/c may export a function x, which is then in the global      *)
(* scope; the entry source a declares the classes B (field v, method m,    *)
(* both of type i32, and a static method s) and D (extends B), the enum E, *)
(* with or without a value x, the namespace N with the function f and,     *)
(* perhaps, in a second declaration the function x, perhaps a variable x,  *)
(* and perhaps a class String that is @global.                             *)
(***************************************************************************)
Returning(declaration, returnType) ==
  [declaration EXCEPT !.signature.returnType = returnType]

LibraryStatements ==
  { <<>>,
    << [kind |-> "FUNCTIONDECLARATION",
        declaration |-> Returning(Declaration(SourcePool[3], "x", {"EXPORT"}, <<>>), "i32")] >> }

ClassStatements ==
  << [kind |-> "CLASSDECLARATION",
      declaration |->
        [Declaration(SourcePool[1], "B", {}, <<>>) EXCEPT
           !.members =
              << [Member(SourcePool[1], <<"B", INSTANCE_DELIMITER>>, "v", {"INSTANCE"})
                    EXCEPT !.kind = "FIELDDECLARATION", !.type = "i32"],
                 Returning(MethodDeclaration(SourcePool[1], "B", "m", <<>>), "i32"),
                 Returning([Member(SourcePool[1], <<"B", STATIC_DELIMITER>>, "s", {"STATIC"})
                              EXCEPT !.kind = "METHODDECLARATION"], "B") >>]],
     [kind |-> "CLASSDECLARATION",
      declaration |-> [Declaration(SourcePool[1], "D", {}, <<>>) EXCEPT !.extendsType = "B"]] >>

EnumStatements ==
  { << [kind |-> "ENUMDECLARATION",
        declaration |-> [Declaration(SourcePool[1], "E", {}, <<>>) EXCEPT !.values = v]] >> :
      v \in { <<>>, <<Member(SourcePool[1], <<"E", STATIC_DELIMITER>>, "x", {})>> } }

NamespaceStatements ==
  { << [kind |-> "NAMESPACEDECLARATION",
        declaration |->
          [Declaration(SourcePool[1], "N", {}, <<>>) EXCEPT
             !.members = <<Returning(Member(SourcePool[1], <<"N", STATIC_DELIMITER>>,
                                            "f", {}), "i32")>>]] >> \o more :
      more \in
        { <<>>,
          << [kind |-> "NAMESPACEDECLARATION",
              declaration |->
                [Declaration(SourcePool[1], "N", {}, <<>>) EXCEPT
                   !.members = <<Returning(Member(SourcePool[1], <<"N", STATIC_DELIMITER>>,
                                                  "x", {}), "B")>>]] >> } }

VariableStatements ==
  { <<>>,
    << [kind |-> "VARIABLE", declaration |-> Declaration(SourcePool[1], "x", {}, <<>>)] >> }

StringStatements ==
  { <<>>,
    << [kind |-> "CLASSDECLARATION",
        declaration |-> Declaration(SourcePool[1], "String", {}, <<Decorator("GLOBAL")>>)] >> }

ExpressionTexts ==
  { l \o ClassStatements \o e \o n \o v \o s :
      l \in LibraryStatements, e \in EnumStatements, n \in NamespaceStatements,
      v \in VariableStatements, s \in StringStatements }

InitializeExpressions == Initialize(ExpressionTexts)

(***************************************************************************)
(* Program.resolveExpression, resolvePropertyAccess and                    *)
(* resolveElementAccess.  The state these thread through is the program    *)
(* (P: diagnostics, resolvedThisExpression, resolvedElementExpression),    *)
(* the resolver (R: the instances made, its diagnostics), the element      *)
(* returned and the exception thrown, if any.  An Element is referred to   *)
(* as NoElement and ElementRef say.                                        *)
(***************************************************************************)
(* element.kind *)
elementKind(S, element) ==
  IF element.kind = "ELEMENT" THEN S.R.prototypes[element.ref].kind ELSE element.kind

returns(S, element) == [S EXCEPT !.element = element]

(* an element found: the out-parameters are set, the element is returned *)
found(S, element, thisExpression, elementExpression) ==
  [S EXCEPT !.P.resolvedThisExpression = thisExpression,
            !.P.resolvedElementExpression = elementExpression,
            !.element = element]

(* this.error(code, ...); return null *)
reports(S, code, arg) == [S EXCEPT !.P = error(S.P, code, arg), !.element = NoElement]

(* the result of a call into the resolver (r.R), with the element made of
   what it returned *)
resolved(S, R, element) ==
  [S EXCEPT !.R = R, !.element = element,
            !.thrown = IF R.thrown # NoName THEN R.thrown ELSE S.thrown]

(* (<VariableLikeElement>target).type.classReference: a Global is of type
   void until the compiler resolves it *)
classReferenceOf(S, F, target) ==
  CASE target.kind = "LOCAL" -> F.locals[target.ref].classReference
    [] target.kind = "FIELD" -> S.R.classes[target.ref].members[target.name].type.classReference
    [] OTHER -> Null

(* the member of a class instance as an Element *)
memberOfClass(class, member) ==
  IF member.kind = "FIELD"
  THEN [kind |-> "FIELD", ref |-> class, name |-> member.simpleName]
  ELSE ElementRef("ELEMENT", member.prototype)

(* resolvePropertyAccess: "Look up the member within", case CLASS: the
   do-while loop over the class and its base classes *)
RECURSIVE lookUpInClass(_, _, _)
lookUpInClass(S, class, propertyAccess) ==
  IF Has(S.R.classes[class].members, propertyAccess.property)
  THEN found(S, memberOfClass(class, S.R.classes[class].members[propertyAccess.property]),
             propertyAccess.expression, NoExpression)
  ELSE IF S.R.classes[class].base # Null
  THEN lookUpInClass(S, S.R.classes[class].base, propertyAccess)
  ELSE reports(S, "Property_0_does_not_exist_on_type_1", <<propertyAccess.property>>)

(* case CLASS_PROTOTYPE: the do-while loop over the prototype and its base
   prototypes.  The loop has no other exit than a member found or a
   prototype without base prototype: once it has been at every element of
   the program (steps) it will never leave *)
RECURSIVE lookUpInPrototype(_, _, _, _)
lookUpInPrototype(S, prototype, propertyAccess, steps) ==
  IF Has(S.P.elements[prototype].members, propertyAccess.property)
  THEN found(S, ElementRef("ELEMENT", S.P.elements[prototype].members[propertyAccess.property]),
             propertyAccess.expression, NoExpression)
  ELSE IF S.P.elements[prototype].basePrototype = Null
  THEN reports(S, "Property_0_does_not_exist_on_type_1", <<propertyAccess.property>>)
  ELSE IF steps > Len(S.P.elements)
  THEN [S EXCEPT !.element = NoElement, !.thrown = "does not terminate"]
  ELSE lookUpInPrototype(S, S.P.elements[prototype].basePrototype, propertyAccess, steps + 1)

(* resolvePropertyAccess: "Look up the member within" *)
lookUpMember(S, target, propertyAccess) ==
  IF elementKind(S, target) = "CLASS"
  THEN lookUpInClass(S, target.ref, propertyAccess)
  ELSE IF elementKind(S, target) = "CLASS_PROTOTYPE"
  THEN lookUpInPrototype(S, target.ref, propertyAccess, 1)
  ELSE IF target.kind = "ELEMENT" /\ target.ref <= Len(S.P.elements)
          /\ Has(S.P.elements[target.ref].members, propertyAccess.property)
  THEN found(S, ElementRef("ELEMENT", S.P.elements[target.ref].members[propertyAccess.property]),
             propertyAccess.expression, NoExpression)
  ELSE reports(S, "Property_0_does_not_exist_on_type_1", <<propertyAccess.property>>)

(* resolvePropertyAccess, once the target expression is resolved (S):
   "Resolve variable-likes to the class type they reference first".  No
   class of these programs has accessors, so no target is a PROPERTY *)
accessProperty(S, F, propertyAccess) ==
  IF S.thrown # NoName \/ S.element = NoElement THEN S
  ELSE IF elementKind(S, S.element) \in {"GLOBAL", "LOCAL", "FIELD"}
  THEN IF classReferenceOf(S, F, S.element) = Null
       THEN reports(S, "Property_0_does_not_exist_on_type_1", <<propertyAccess.property>>)
       ELSE lookUpMember(S, ElementRef("CLASS", classReferenceOf(S, F, S.element)),
                         propertyAccess)
  ELSE IF elementKind(S, S.element) = "CLASS"
          /\ S.P.resolvedElementExpression # NoExpression
  THEN IF lookupOverload(S.R, S.element.ref, "INDEXED_GET") = Null
       THEN reports(S, "Index_signature_is_missing_in_type_0",
                    S.R.classes[S.element.ref].internalName)
       ELSE IF S.R.functions[lookupOverload(S.R, S.element.ref, "INDEXED_GET")]
                 .returnType.classReference = Null
       THEN reports(S, "Property_0_does_not_exist_on_type_1", <<propertyAccess.property>>)
       ELSE lookUpMember(S, ElementRef("CLASS",
                            S.R.functions[lookupOverload(S.R, S.element.ref, "INDEXED_GET")]
                              .returnType.classReference),
                         propertyAccess)
  ELSE lookUpMember(S, S.element, propertyAccess)

(* resolveElementAccess, once the target expression is resolved (S) *)
accessElement(S, F, elementAccess) ==
  IF S.thrown # NoName \/ S.element = NoElement THEN S
  ELSE IF elementKind(S, S.element) \in {"GLOBAL", "LOCAL", "FIELD"}
          /\ classReferenceOf(S, F, S.element) # Null
  THEN found(S, ElementRef("CLASS", classReferenceOf(S, F, S.element)),
             elementAccess.expression, elementAccess.elementExpression)
  ELSE IF elementKind(S, S.element) = "CLASS"
          /\ lookupOverload(S.R, S.element.ref, "INDEXED_GET") = Null
  THEN reports(S, "Index_signature_is_missing_in_type_0",
               S.R.classes[S.element.ref].internalName)
  ELSE IF elementKind(S, S.element) = "CLASS"
          /\ S.R.functions[lookupOverload(S.R, S.element.ref, "INDEXED_GET")]
               .returnType.classReference # Null
  THEN found(S, ElementRef("CLASS",
                  S.R.functions[lookupOverload(S.R, S.element.ref, "INDEXED_GET")]
                    .returnType.classReference),
             elementAccess.expression, elementAccess.elementExpression)
  ELSE reports(S, "Operation_not_supported", <<>>)

(* case CALL, once the prototype called is resolved (r): the class or the
   function target of the return type *)
callInstance(S, r, target) ==
  IF r.R.thrown # NoName \/ r.instance = Null THEN resolved(S, r.R, NoElement)
  ELSE IF r.R.functions[r.instance].returnType.classReference # Null
  THEN resolved(S, r.R, ElementRef("CLASS", r.R.functions[r.instance].returnType.classReference))
  ELSE IF r.R.functions[r.instance].returnType.signatureReference # Null
  THEN resolved(S, r.R, ElementRef("FUNCTIONTARGET",
                                   r.R.functions[r.instance].returnType.signatureReference))
  ELSE reports(resolved(S, r.R, NoElement),
               "Cannot_invoke_an_expression_whose_type_lacks_a_call_signature",
               r.R.prototypes[target.ref].internalName)

(* case CALL, once the target expression is resolved (S) *)
call(S, F) ==
  IF S.thrown # NoName \/ S.element = NoElement THEN S
  ELSE IF elementKind(S, S.element) = "FUNCTION_PROTOTYPE"
  THEN callInstance(S, MethodPrototype_resolve(S.R, S.element.ref, 0), S.element)
  ELSE reports(S, "Operation_not_supported", <<>>)

(* case ASSERTION, once the type is resolved (t) *)
assertion(S, t) ==
  IF t.R.thrown = NoName /\ t.type # NoType /\ t.type.classReference # Null
  THEN found(resolved(S, t.R, NoElement), ElementRef("CLASS", t.type.classReference),
             NoExpression, NoExpression)
  ELSE resolved(S, t.R, NoElement)

(* case IDENTIFIER, once resolveIdentifier has returned (r) *)
identifier(S, r) ==
  [S EXCEPT !.P = r.P,
            !.element = IF r.local # Null THEN ElementRef("LOCAL", r.local)
                        ELSE IF r.element # Null THEN ElementRef("ELEMENT", r.element)
                        ELSE NoElement]

(* contextualFunction.flow.is(INLINE_CONTEXT) and getScopedLocal(name) *)
explicitLocal(F, name) ==
  IF "INLINE_CONTEXT" \in F.flows[Len(F.flows)].flags THEN getScopedLocal(F, name) ELSE Null

RECURSIVE resolveExpression(_, _, _)
resolveExpression(S, expression, contextualFunction) ==
  CASE expression.kind = "PARENTHESIZED" ->
         resolveExpression(S, expression.expression, contextualFunction)
    [] expression.kind = "ASSERTION" ->
         assertion(S, resolveType(S.R, expression.toType, 0))
    [] expression.kind = "BINARY" ->
         [S EXCEPT !.element = NoElement, !.thrown = "not implemented"]
    [] expression.kind = "THIS" ->
         IF explicitLocal(contextualFunction, "this") # Null
         THEN found(S, ElementRef("LOCAL", explicitLocal(contextualFunction, "this")),
                    NoExpression, NoExpression)
         ELSE IF contextualFunction.memberOf # NoElement
         THEN found(S, contextualFunction.memberOf, NoExpression, NoExpression)
         ELSE reports(S, "_this_cannot_be_referenced_in_current_location", <<>>)
    [] expression.kind = "SUPER" ->
         IF explicitLocal(contextualFunction, "super") # Null
         THEN found(S, ElementRef("LOCAL", explicitLocal(contextualFunction, "super")),
                    NoExpression, NoExpression)
         ELSE IF contextualFunction.memberOf.kind = "CLASS"
                 /\ S.R.classes[contextualFunction.memberOf.ref].base # Null
         THEN found(S, ElementRef("CLASS", S.R.classes[contextualFunction.memberOf.ref].base),
                    NoExpression, NoExpression)
         ELSE reports(S, "_super_can_only_be_referenced_in_a_derived_class", <<>>)
    [] expression.kind = "IDENTIFIER" ->
         identifier(S, resolveIdentifier(S.P, expression, contextualFunction, Null))
    [] expression.kind = "LITERAL" /\ expression.literalKind = "STRING" ->
         found(S, IF S.P.stringInstance = Null THEN NoElement
                  ELSE ElementRef("STRING", S.P.stringInstance),
               expression, NoExpression)
    [] expression.kind = "PROPERTYACCESS" ->
         accessProperty(resolveExpression(S, expression.expression, contextualFunction),
                        contextualFunction, expression)
    [] expression.kind = "ELEMENTACCESS" ->
         accessElement(resolveExpression(S, expression.expression, contextualFunction),
                       contextualFunction, expression)
    [] expression.kind = "CALL" ->
         call(resolveExpression(S, expression.expression, contextualFunction),
              contextualFunction)
    [] OTHER -> reports(S, "Operation_not_supported", <<>>)

(***************************************************************************)
(* The compiler at work on one function of an initialized program: it      *)
(* resolves the function (CompileFunction), enters scopes, declares locals *)
(* and sets INLINE_CONTEXT on the current flow, and resolves an identifier *)
(* or an expression of the function's body.  resolver.last is that call    *)
(* with what it returned, the diagnostics emitted during it and the        *)
(* exception thrown.                                                       *)
(***************************************************************************)
Identifier(text) == [kind |-> "IDENTIFIER", text |-> text, source |-> SourcePool[1]]

PropertyAccess(expression, property) ==
  [kind |-> "PROPERTYACCESS", expression |-> expression, property |-> property]

ElementAccess(expression) ==
  [kind |-> "ELEMENTACCESS", expression |-> expression,
   elementExpression |-> [kind |-> "LITERAL", literalKind |-> "INTEGER"]]

Call(expression) == [kind |-> "CALL", expression |-> expression]

Assertion(toType) ==
  [kind |-> "ASSERTION", expression |-> Identifier("x"), toType |-> toType]

Parenthesized(expression) == [kind |-> "PARENTHESIZED", expression |-> expression]

Unhandled ==
  { [kind |-> "BINARY"], [kind |-> "LITERAL", literalKind |-> "INTEGER"],
    [kind |-> "UNARYPREFIX"] }

Expressions ==
  Unhandled \cup
  { Identifier(n) : n \in {"x", "E", "q"} } \cup
  { Assertion(TypeNode(t)) : t \in {"i32", "B", "q"} } \cup
  { [kind |-> "THIS"], [kind |-> "SUPER"], Parenthesized([kind |-> "THIS"]),
    [kind |-> "LITERAL", literalKind |-> "STRING"] } \cup
  { PropertyAccess(Identifier("x"), "v"), PropertyAccess(Identifier("E"), "x"),
    PropertyAccess(Identifier("N"), "f"), PropertyAccess(Identifier("D"), "s"),
    PropertyAccess(Identifier("D"), "q"), PropertyAccess([kind |-> "THIS"], "v"),
    PropertyAccess(Assertion(TypeNode("D")), "m"),
    PropertyAccess(Assertion(TypeNode("D")), "q"),
    PropertyAccess(PropertyAccess([kind |-> "THIS"], "v"), "q"),
    PropertyAccess(ElementAccess([kind |-> "THIS"]), "v") } \cup
  { ElementAccess(Identifier("x")), ElementAccess([kind |-> "THIS"]),
    ElementAccess(Assertion(TypeNode("B"))) } \cup
  { Call(Identifier("x")), Call(Identifier("E")),
    Call(PropertyAccess(Identifier("B"), "s")),
    Call(PropertyAccess([kind |-> "THIS"], "m")) }

(* the element a Function is a member of: its class instance, the class
   prototype of a static method, or null *)
memberOf(P, R, instance) ==
  IF R.functions[instance].parent # Null
  THEN ElementRef("CLASS", R.functions[instance].parent)
  ELSE IF P.elements[R.functions[instance].prototype].classPrototype # Null
  THEN ElementRef("ELEMENT", P.elements[R.functions[instance].prototype].classPrototype)
  ELSE NoElement

(* prototype.resolve() of a function of the program, which the compiler
   then compiles *)
CompileFunction ==
  /\ init.pc = "done"
  /\ flow = NoFlow
  /\ \E p \in 1..Len(program.elements) :
       /\ program.elements[p].kind = "FUNCTION_PROTOTYPE"
       /\ MethodPrototype_resolve(Resolving, p, 0).instance # Null
       /\ resolver' = MethodPrototype_resolve(Resolving, p, 0).R
       /\ flow' = newFunction(p, memberOf(program, resolver',
                                          MethodPrototype_resolve(Resolving, p, 0).instance))
  /\ UNCHANGED <<program, init>>

(* the function is being compiled and nothing of its body is resolved yet *)
Compiling ==
  /\ init.pc = "done"
  /\ flow # NoFlow
  /\ flow.thrown = NoName
  /\ resolver.thrown = NoName
  /\ resolver.last = <<>>

(* the body's block is entered *)
EnterScope == Compiling /\ Len(flow.flows) = 1 /\ EnterBranchOrScope

(* a block-scoped variable of the body is declared: x, or the local that
   stands for this where a method is inlined *)
DeclareLocal ==
  /\ Compiling
  /\ Len(flow.locals) < MaxLocals
  /\ \E name \in {"x", "this"} :
       /\ ScopedGet(flow.flows[Len(flow.flows)].scopedLocals, name) = Null
       /\ flow' = addScopedLocal(flow, "i32", name, TRUE)
  /\ UNCHANGED <<program, init, resolver>>

(* Flow.set(INLINE_CONTEXT) on the current flow *)
SetInlineContext ==
  /\ Compiling
  /\ "INLINE_CONTEXT" \notin flow.flows[Len(flow.flows)].flags
  /\ flow' = [flow EXCEPT !.flows[Len(flow.flows)].flags = @ \cup {"INLINE_CONTEXT"}]
  /\ UNCHANGED <<program, init, resolver>>

(* the enums of the program *)
Enums(P) == { e \in 1..Len(P.elements) : P.elements[e].kind = "ENUM" }

(* resolveIdentifier(x, contextualFunction, contextualEnum), with or
   without either context *)
ResolveIdentifier ==
  /\ Compiling
  /\ \E inFunction \in BOOLEAN, contextualEnum \in {Null} \cup Enums(program) :
       LET r == resolveIdentifier(program, Identifier("x"),
                                  IF inFunction THEN flow ELSE NoFunction, contextualEnum)
       IN /\ program' = r.P
          /\ resolver' = [resolver EXCEPT
                            !.last = <<"identifier", "x", inFunction, contextualEnum,
                                       r.element, r.local>>]
  /\ UNCHANGED <<init, flow>>

(* resolveExpression(expression, contextualFunction) *)
ResolveExpression ==
  /\ Compiling
  /\ \E expression \in Expressions :
       LET r == resolveExpression(
                  [P |-> [program EXCEPT !.diagnostics = {}],
                   R |-> [resolver EXCEPT !.diagnostics = {}],
                   element |-> NoElement, thrown |-> NoName],
                  expression, flow)
       IN /\ program' = [r.P EXCEPT !.diagnostics = @ \cup program.diagnostics]
          /\ resolver' = [r.R EXCEPT
                            !.diagnostics = @ \cup resolver.diagnostics,
                            !.last = <<"expression", expression, r.element,
                                       r.P.diagnostics \cup r.R.diagnostics, r.thrown>>]
  /\ UNCHANGED <<init, flow>>

NextExpressions ==
  \/ InitializeExpressions
  \/ CompileFunction
  \/ EnterScope
  \/ DeclareLocal
  \/ SetInlineContext
  \/ ResolveIdentifier
  \/ ResolveExpression

SpecExpressions == InitProgram /\ [][NextExpressions]_vars

(***************************************************************************)
(* Properties of resolveIdentifier and resolveExpression.                  *)
(***************************************************************************)
IdentifierResolved ==
  /\ resolver # NoResolver
  /\ Len(resolver.last) = 6
  /\ resolver.last[1] = "identifier"

ExpressionResolved ==
  /\ resolver # NoResolver
  /\ Len(resolver.last) = 5
  /\ resolver.last[1] = "expression"

(* the first hit for name in the order: member of the contextual enum,
   locals of the contextual function, its namespaces, the file scope of the
   entry source, the global scope; as the pair of the element and the local *)
firstHit(name, inFunction, contextualEnum) ==
  LET member == IF contextualEnum # Null
                THEN Get(program.elements[contextualEnum].members, name) ELSE Null
      local == IF inFunction THEN getScopedLocal(flow, name) ELSE Null
      sibling == IF inFunction
                 THEN searchNamespaces(program, program.elements[flow.prototype].namespace,
                                       name)
                 ELSE Null
  IN IF member # Null THEN <<member, Null>>
     ELSE IF local # Null THEN <<Null, local>>
     ELSE IF sibling # Null THEN <<sibling, Null>>
     ELSE IF Has(program.elementsLookup, SourcePool[1].internalPath \o <<name>>)
     THEN <<program.elementsLookup[SourcePool[1].internalPath \o <<name>>], Null>>
     ELSE <<Get(program.elementsLookup, <<name>>), Null>>

(* C21: resolveIdentifier returns the first hit in the order enum member,
   locals of the function, namespaces of the function, file scope, global
   scope; with a contextual enum that has no such member, the locals and
   namespaces of the contextual function still come before the file scope. *)
IdentifierScopeOrder ==
  IdentifierResolved =>
    <<resolver.last[5], resolver.last[6]>>
      = firstHit(resolver.last[2], resolver.last[3], resolver.last[4])

(* C23: resolveExpression never throws, and for an expression of a kind it
   does not handle (a binary expression is one) it emits "Operation not
   supported" and returns null. *)
ResolveExpressionNeverThrows ==
  ExpressionResolved =>
    /\ resolver.last[5] = NoName
    /\ resolver.last[2] \in Unhandled =>
         /\ resolver.last[3] = NoElement
         /\ <<"Operation_not_supported", <<>>>> \in resolver.last[4]

(* C27: whenever resolveExpression returns null, at least one diagnostic
   was emitted during the call. *)
NullResultIsReported ==
  (ExpressionResolved /\ resolver.last[5] = NoName /\ resolver.last[3] = NoElement)
    => resolver.last[4] # {}

(***************************************************************************)
(* Program.initialize over texts that declare type aliases, with or        *)
(* without a class String that is @global, followed by the resolver at     *)
(* work on the names of the aliases.                                       *)
(***************************************************************************)
MaxAliases == 2

AliasNames == {"string", "A", "C"}

AliasedTypes == {"i32", "A", "C"}

TypeDeclarations ==
  { [kind |-> "TYPEDECLARATION",
     declaration |-> [Declaration(SourcePool[1], n, {}, <<>>) EXCEPT !.type = t]] :
      n \in AliasNames, t \in AliasedTypes }

AliasStatements ==
  UNION { [1..k -> TypeDeclarations] : k \in 0..MaxAliases }

AliasTexts == { a \o s : a \in AliasStatements, s \in StringStatements }

InitializeAliases == Initialize(AliasTexts)

(* the compiler resolves a type node that names an alias; resolver.last
   remembers the node and the type it has been resolved to *)
ResolveAlias ==
  /\ Initialized
  /\ \E name \in AliasedTypes :
       LET r == resolveType(Resolving, TypeNode(name), 0) IN
       resolver' = [r.R EXCEPT !.last = <<"type", name, r.type.name>>]
  /\ UNCHANGED <<program, init, flow>>

NextAliases ==
  \/ InitializeAliases
  \/ ResolveAlias

SpecAliases == InitProgram /\ [][NextAliases]_vars

(* C24: when initialize has returned and a class prototype is bound to the
   global name String, then, if the program declares a type alias named
   string, 'Duplicate identifier' has been reported for String and string
   is not registered as the type of an instance of String; and if it
   declares no such alias, string is in typesLookup and stringInstance is
   the instance of String. *)
StringAliasCollides ==
  init.pc = "done" /\ Has(program.elementsLookup, <<"String">>) =>
    LET stringPrototype == program.elementsLookup[<<"String">>] IN
    IF Has(program.typeAliases, "string")
    THEN /\ <<"Duplicate_identifier_0", program.elements[stringPrototype].internalName>>
              \in program.diagnostics
         /\ program.stringInstance = Null
         /\ "string" \notin program.typesLookup
    ELSE /\ program.stringInstance = resolveString(program, stringPrototype).instance
         /\ program.stringInstance # Null
         /\ "string" \in program.typesLookup

(* C29: resolveType returns, with a type or with null, for every type node
   and every set of aliases: the expansion of aliases does not go on until
   the call stack is exhausted. *)
ResolveTypeTerminates ==
  resolver.thrown # "Maximum call stack size exceeded"

(***************************************************************************)
(* Program.resolveSignature of a signature node without an explicit this   *)
(* type: each parameter has a kind and a type node that names its type;    *)
(* the return type node may be missing.  i counts the parameters from 1,   *)
(* the source counts them from 0.                                          *)
(***************************************************************************)
MaxParameters == 2

ParameterKinds == {"DEFAULT", "OPTIONAL", "REST"}

NoSignature ==
  [parameterTypes |-> <<>>, returnType |-> NoName, requiredParameters |-> 0,
   hasRest |-> FALSE]

(* resolveSignature from the return type node on, the parameters resolved *)
resolveReturnType(R, node, parameterTypes, requiredParameters, hasRest, depth) ==
  IF node.returnType = NoName
  THEN [R |-> R, null |-> FALSE,
        signature |-> [parameterTypes |-> parameterTypes, returnType |-> "void",
                       requiredParameters |-> requiredParameters, hasRest |-> hasRest]]
  ELSE LET r == resolveType(R, TypeNode(node.returnType), depth + 1) IN
       IF r.R.thrown # NoName \/ r.type = NoType
       THEN [R |-> r.R, null |-> TRUE, signature |-> NoSignature]
       ELSE [R |-> r.R, null |-> FALSE,
             signature |-> [parameterTypes |-> parameterTypes, returnType |-> r.type.name,
                            requiredParameters |-> requiredParameters,
                            hasRest |-> hasRest]]

(* the loop over the parameters *)
RECURSIVE resolveParameterTypes(_, _, _, _, _, _, _)
resolveParameterTypes(R, node, i, parameterTypes, requiredParameters, hasRest, depth) ==
  LET numParameters == Len(node.parameterTypes) IN
  IF i > numParameters
  THEN resolveReturnType(R, node, parameterTypes, requiredParameters, hasRest, depth)
  ELSE
  LET parameterTypeNode == node.parameterTypes[i] IN
  IF parameterTypeNode.parameterKind = "REST" /\ (i - 1) # numParameters
  THEN [R |-> throw(R, "assertion failed"), null |-> TRUE, signature |-> NoSignature]
  ELSE
  LET r == resolveType(R, TypeNode(parameterTypeNode.type), depth + 1) IN
  IF r.R.thrown # NoName \/ r.type = NoType
  THEN [R |-> r.R, null |-> TRUE, signature |-> NoSignature]
  ELSE resolveParameterTypes(
         r.R, node, i + 1, Append(parameterTypes, r.type.name),
         IF parameterTypeNode.parameterKind = "DEFAULT" THEN i ELSE requiredParameters,
         hasRest \/ parameterTypeNode.parameterKind = "REST", depth)

resolveSignature(R, node, depth) ==
  resolveParameterTypes(R, node, 1, <<>>, 0, FALSE, depth)

(* the signature nodes of the texts: up to MaxParameters parameters of the
   basic type i32 or of the type named A, an alias or nothing *)
ParameterNodes ==
  { [parameterKind |-> k, type |-> t] : k \in ParameterKinds, t \in {"i32", "A"} }

SignatureNodes ==
  { [kind |-> "SIGNATURE", parameterTypes |-> p, returnType |-> t] :
      p \in UNION { [1..k -> ParameterNodes] : k \in 0..MaxParameters },
      t \in {NoName, "i32"} }

(* the compiler resolves a signature node; resolver.last remembers the
   node, whether null was returned, and the signature *)
ResolveSignature ==
  /\ Initialized
  /\ \E node \in SignatureNodes :
       LET r == resolveSignature(Resolving, node, 0) IN
       resolver' = [r.R EXCEPT !.last = <<"signature", node, r.null, r.signature>>]
  /\ UNCHANGED <<program, init, flow>>

NextSignatures ==
  \/ InitializeAliases
  \/ ResolveSignature

SpecSignatures == InitProgram /\ [][NextSignatures]_vars

(* C25: resolveSignature accepts a rest parameter exactly when it is the
   last one: for a node whose last parameter, and no other, has the kind
   REST and whose types are basic types, it returns a signature with
   hasRest = true; and its assertion fails only for a node with a REST
   parameter that is not the last one. *)
RestParameterIsLast ==
  (resolver # NoResolver /\ resolver.last[1] = "signature") =>
    LET parameters == resolver.last[2].parameterTypes
        numParameters == Len(parameters)
    IN /\ ( /\ numParameters > 0
            /\ parameters[numParameters].parameterKind = "REST"
            /\ \A i \in 1..numParameters :
                 /\ parameters[i].type \in BasicTypes
                 /\ i < numParameters => parameters[i].parameterKind # "REST" )
          => /\ resolver.thrown = NoName
             /\ ~resolver.last[3]
             /\ resolver.last[4].hasRest
       /\ resolver.thrown = "assertion failed"
          => \E i \in 1..(numParameters - 1) : parameters[i].parameterKind = "REST"

(***************************************************************************)
(* Program.initialize over texts in which the classes B and D, in either   *)
(* order, each with or without a static method s, extend nothing, each     *)
(* other or themselves; then the compiler resolves B.s, B.q, D.s and D.q   *)
(* and the instances of the classes.                                       *)
(***************************************************************************)
ExtendingClass(name, extendsType, members) ==
  [kind |-> "CLASSDECLARATION",
   declaration |->
     [Declaration(SourcePool[1], name, {}, <<>>) EXCEPT
        !.extendsType = extendsType, !.members = members]]

StaticMethods(name) ==
  { <<>>,
    << Returning([Member(SourcePool[1], <<name, STATIC_DELIMITER>>, "s", {"STATIC"})
                    EXCEPT !.kind = "METHODDECLARATION"], "i32") >> }

ExtendsTexts ==
  UNION { { << ExtendingClass("B", x, m), ExtendingClass("D", y, n) >>,
            << ExtendingClass("D", y, n), ExtendingClass("B", x, m) >> } :
          x \in {NoName} \cup ClassNames, y \in {NoName} \cup ClassNames,
          m \in StaticMethods("B"), n \in StaticMethods("D") }

InitializeExtends == Initialize(ExtendsTexts)

(* resolveExpression of name.property outside of any function *)
ResolveStaticMember ==
  /\ Initialized
  /\ \E name \in ClassNames, property \in {"s", "q"} :
       LET r == resolveExpression(
                  [P |-> program, R |-> Resolving, element |-> NoElement, thrown |-> NoName],
                  PropertyAccess(Identifier(name), property), NoFunction)
       IN /\ program' = r.P
          /\ resolver' = [r.R EXCEPT !.last = <<"property", name, property, r.element>>,
                                     !.thrown = r.thrown]
  /\ UNCHANGED <<init, flow>>

(* prototype.resolve(null) of a class of the program *)
ResolveInstance ==
  /\ Initialized
  /\ \E name \in DOMAIN Resolving.declarations :
       LET r == ClassPrototype_resolve(Resolving, name, <<>>, 0) IN
       resolver' = [r.R EXCEPT !.last = <<"class", name, r.instance>>]
  /\ UNCHANGED <<program, init, flow>>

NextExtends ==
  \/ InitializeExtends
  \/ ResolveStaticMember
  \/ ResolveInstance

SpecExtends == InitProgram /\ [][NextExtends]_vars

(* the base prototype links from e end within steps links *)
RECURSIVE reachesNull(_, _, _)
reachesNull(P, e, steps) ==
  IF e = Null THEN TRUE
  ELSE IF steps = 0 THEN FALSE
  ELSE reachesNull(P, P.elements[e].basePrototype, steps - 1)

(* C28: when initialize has returned, the basePrototype links from every
   class prototype end at a prototype without base prototype within as
   many links as the program has elements, and neither the walk of
   resolvePropertyAccess over the base prototypes nor the resolution of
   the base classes in ClassPrototype.resolve goes on without end. *)
BasePrototypesAreAcyclic ==
  init.pc = "done" =>
    /\ \A e \in 1..Len(program.elements) :
         program.elements[e].kind = "CLASS_PROTOTYPE" =>
           reachesNull(program, e, Len(program.elements))
    /\ resolver.thrown \notin {"does not terminate", "Maximum call stack size exceeded"}

=============================================================================
